---------------------------- MODULE Spec2Model ----------------------------
(***************************************************************************)
(* State-machine model of the competition-application pipeline:            *)
(*   - MonicaClient (src/src/api/monica_client.py): calculate_backoff_delay,*)
(*     call_api and complete;                                              *)
(*   - WebScraper (src/src/scraper/web_scraper.py): scrape_static_content, *)
(*     scrape_dynamic_content, scrape_url, close, the with-block;          *)
(*   - ContentParser (src/src/scraper/content_parser.py): parse_content,   *)
(*     validate_parsed_data, save_parsed_info, _dict_to_parsed_info;       *)
(*   - WorkflowExecutor (src/src/workflow/workflow_execution.py) and main  *)
(*     (src/src/run_workflow.py): execute_complete_workflow, its three     *)
(*     stages and the exit code of the process.                            *)
(* The specifications share the variables; each one runs one component and *)
(* keeps the others idle: SpecBackoff, SpecSufficient, SpecValidate,       *)
(* SpecRules and SpecRoundTrip apply pure functions to bounded inputs,     *)
(* SpecApi runs one completion call against an arbitrary endpoint,         *)
(* SpecScrape runs scrape_url calls of one WebScraper against an arbitrary *)
(* website and browser, SpecParse runs one parse_content call against an   *)
(* arbitrary model answer, SpecWorkflow runs main: one                     *)
(* execute_complete_workflow call whose scraping stage drives the          *)
(* WebScraper, and SpecResume adds the parsing and generation stages       *)
(* called on their own.                                                    *)
(***************************************************************************)
EXTENDS Integers, Sequences, FiniteSets, TLC

VARIABLES
    \* ---- backoff harness (calculate_backoff_delay as a pure function)
    bo,
    \* ---- MonicaClient.call_api / complete
    apiPc,            \* "idle" | "loop" | "returned"
    caller,           \* "none" | "call_api" | "complete"
    retry_attempts,   \* argument of the call
    retry_delay,      \* argument of the call
    attempt,          \* loop variable of call_api
    apiEvents,        \* POSTs and sleeps performed, in order
    apiContent,       \* first component of call_api's return value
    apiElapsed,       \* second component of call_api's return value
    start_time,       \* time.time() at the start of call_api
    now,              \* wall clock (seconds)
    completeOut,      \* outcome of complete: pending / returned / raised
    \* ---- WebScraper
    max_retries,      \* config['max_retries']
    driver,           \* self.driver: 0 (None) or the id of a browser session
    sessions,         \* status of every browser session created so far
    http_closed,      \* self.session.close() was the last use of the HTTP session
    scPc,             \* "idle" | "static" | "dynamic" | "done" | "raised"
    url,              \* argument of scrape_url
    force_dynamic,    \* argument of scrape_url
    sAttempt,         \* loop variable of scrape_static_content
    static_result,    \* local of scrape_url
    dynamic_result,   \* local of scrape_url
    scResult,         \* what scrape_url returned
    scEvents,         \* GETs, delays and browser operations of the call, in order
    scCalls,          \* scrape_url calls started on this instance
    scClock,          \* datetime.now()
    soup,             \* the pages parsed by the static and by the dynamic fetch
    scope,            \* with-statement around the instance: "none" | "with" | "exited"
    scLast,           \* the method of the instance called last
    sOutcome,         \* what the last attempt of the static loop met
    \* ---- harness of _is_content_sufficient as a pure function
    suf,
    \* ---- harness of validate_parsed_data as a pure function
    val,
    \* ---- ContentParser.parse_content
    llm_client,       \* self.llm_client is configured
    cpPc,             \* "idle" | "llm" | "rules" | "finish" | "done" | "raised"
    cpContent,        \* argument of parse_content
    parsed_data,      \* local of parse_content
    cpResult,         \* what parse_content returned
    cpEvents,         \* completion calls and rule-based parses of the call, in order
    cpClock,          \* datetime.now()
    \* ---- harness of save_parsed_info followed by _dict_to_parsed_info
    rt,
    \* ---- harness of parse_with_rules as a pure function
    pr,
    \* ---- run_workflow.main and WorkflowExecutor
    wfPc,             \* "boot" | "idle" | "inputs" | "scraping" | "scraper"
                      \* | "parsing" | "generation" | "returned" | "exited"
                      \* | "crashed" | "interrupted"
    wfEntry,          \* "none" | "full" (execute_complete_workflow) | the stage
                      \* called on its own
    target_url,       \* local of execute_complete_workflow
    wfFiles,          \* the files of the competition's directories
    wfLog,            \* stages started and what they returned, in order
    wfReturn,         \* what execute_complete_workflow returned
    wfContent,        \* the content execute_parsing gave to parse_content
    wfDocs,           \* the stage files load_reference_docs put in the prompt
    wfLlm,            \* the completion call of call_llm_for_application
    wfPosts,          \* completion POSTs made in the parsing and generation stages
    exit_code         \* exit code of the process

boVars  == <<bo>>
apiVars == <<apiPc, caller, retry_attempts, retry_delay, attempt, apiEvents,
             apiContent, apiElapsed, start_time, now, completeOut>>
scVars  == <<max_retries, driver, sessions, http_closed, scPc, url, force_dynamic,
             sAttempt, static_result, dynamic_result, scResult, scEvents, scCalls,
             scClock, soup, scope, scLast, sOutcome>>
sufVars == <<suf>>
valVars == <<val>>
cpVars  == <<llm_client, cpPc, cpContent, parsed_data, cpResult, cpEvents, cpClock>>
rtVars  == <<rt>>
prVars  == <<pr>>
wfVars  == <<wfPc, wfEntry, target_url, wfFiles, wfLog, wfReturn, wfContent, wfDocs,
             wfLlm, wfPosts, exit_code>>
vars    == <<bo, apiPc, caller, retry_attempts, retry_delay, attempt, apiEvents,
             apiContent, apiElapsed, start_time, now, completeOut,
             max_retries, driver, sessions, http_closed, scPc, url, force_dynamic,
             sAttempt, static_result, dynamic_result, scResult, scEvents, scCalls,
             scClock, soup, scope, scLast, sOutcome, suf, val,
             llm_client, cpPc, cpContent, parsed_data, cpResult, cpEvents, cpClock,
             rt, pr, wfPc, wfEntry, target_url, wfFiles, wfLog, wfReturn, wfContent,
             wfDocs, wfLlm, wfPosts, exit_code>>

\* what the steps of one component leave alone
outsideBackoff    == <<apiVars, scVars, sufVars, valVars, cpVars, rtVars, prVars,
                      wfVars>>
outsideApi        == <<boVars, scVars, sufVars, valVars, cpVars, rtVars, prVars,
                      wfVars>>
outsideScrape     == <<boVars, apiVars, sufVars, valVars, cpVars, rtVars, prVars,
                      wfVars>>
outsideSufficient == <<boVars, apiVars, scVars, valVars, cpVars, rtVars, prVars,
                      wfVars>>
outsideValidate   == <<boVars, apiVars, scVars, sufVars, cpVars, rtVars, prVars,
                      wfVars>>
outsideParse      == <<boVars, apiVars, scVars, sufVars, valVars, rtVars, prVars,
                      wfVars>>
outsideRoundTrip  == <<boVars, apiVars, scVars, sufVars, valVars, cpVars, prVars,
                      wfVars>>
outsideRules      == <<boVars, apiVars, scVars, sufVars, valVars, cpVars, rtVars,
                      wfVars>>
outsideStages     == <<boVars, apiVars, sufVars, valVars, cpVars, rtVars, prVars>>
outsideWorkflow   == <<outsideStages, scVars>>

---------------------------------------------------------------------------
(* Python values: None, str, dict, list, and a raised exception.           *)

None    == [t |-> "none", v |-> ""]
Str(s)  == [t |-> "str", v |-> s]
Obj(f)  == [t |-> "obj", v |-> f]
Arr(s)  == [t |-> "arr", v |-> s]
NotJson == [t |-> "notjson", v |-> ""]
Raised  == [t |-> "raise", v |-> ""]

\* dict.get(key, default); AttributeError when the receiver is not a dict
PyGet(o, k, d) ==
    IF o.t # "obj" THEN Raised
    ELSE IF k \in DOMAIN o.v THEN o.v[k] ELSE d

\* x[0]: IndexError on an empty list, KeyError on a dict, TypeError on None
PyIndex0(x) ==
    IF x.t = "arr" THEN (IF Len(x.v) > 0 THEN x.v[1] ELSE Raised)
    ELSE IF x.t = "str" /\ x.v # "" THEN Str(x.v)
    ELSE Raised

\* Python truthiness of a value
Truthy(x) ==
    CASE x.t = "str" -> x.v # ""
      [] x.t = "arr" -> Len(x.v) > 0
      [] x.t = "obj" -> DOMAIN x.v # {}
      [] x.t = "int" -> x.v # 0
      [] x.t = "bool" -> x.v
      [] OTHER       -> FALSE

Min(a, b) == IF a < b THEN a ELSE b

---------------------------------------------------------------------------
(* MonicaClient                                                            *)

DefaultMaxDelay == 300
PostTimeout     == 60

\* bounds of the model
MaxAttempts   == 3     \* largest retry_attempts argument tried
MaxAttemptIdx == 7     \* largest attempt index given to the backoff harness
MaxBase       == 6     \* largest base delay given to the backoff harness

RetryDelays == {5, 200}
\* the retry_attempts arguments tried: range(retry_attempts) is empty for 0
\* and for a negative number
RetryAttempts == -1..MaxAttempts
StartTimes  == {0, 7}
MaxDelays   == {0, 3, 40, DefaultMaxDelay}

calculate_backoff_delay_unclamped(attempt_, base_delay, max_delay) ==
    base_delay * (2 ^ attempt_)

calculate_backoff_delay_linear(attempt_, base_delay, max_delay) ==
    Min(base_delay * (2 * attempt_), max_delay)

\* monica_client.py 37-52
calculate_backoff_delay(attempt_, base_delay, max_delay) ==
    LET delay == base_delay * (2 ^ attempt_)
    IN  Min(delay, max_delay)

\* The endpoint's answers to one POST: an HTTP response or a raised exception
ContentA == "answer A"
ContentB == "answer B"

Reply(content) == Obj([choices |-> Arr(<<Obj([message |-> Obj([content |-> content])])>>)])

Bodies ==
    { Reply(Str(ContentA)),
      Reply(Str(ContentB)),
      Reply(Str("")),                                   \* empty content
      Reply(None),                                      \* content: null
      Obj([choices |-> Arr(<<Obj([message |-> Obj([role |-> Str("assistant")])])>>)]),
      Obj([error |-> Str("overloaded")]),               \* no choices key
      Obj([choices |-> Arr(<<>>)]),                     \* empty choices list
      Obj([choices |-> Arr(<<Obj([message |-> None])>>)]),
      NotJson }

Http(status, body) == [kind |-> "http", status |-> status, body |-> body]
Exc(kind)          == [kind |-> kind, status |-> 0, body |-> None]

Responses ==
    { Http(200, b) : b \in Bodies }
    \cup { Http(s, NotJson) : s \in {204, 302, 404, 429, 500, 503} }
    \cup { Exc("timeout"), Exc("connection_error"), Exc("exception") }

\* monica_client.py 112-113: response.json() and the chain of lookups
ExtractContent(body) ==
    IF body.t = "notjson" THEN Raised
    ELSE LET choices == PyGet(body, "choices", Arr(<<Obj(<<>>)>>))
             first   == IF choices.t = "raise" THEN Raised ELSE PyIndex0(choices)
             message == PyGet(first, "message", Obj(<<>>))
         IN  PyGet(message, "content", None)

AttemptOutcome_retry4xx(r) ==
    IF r.kind # "http" THEN "retry"
    ELSE IF r.status = 200
         THEN (IF Truthy(ExtractContent(r.body)) THEN "success" ELSE "retry")
         ELSE "retry"

AttemptOutcome_accept_empty(r) ==
    IF r.kind # "http" THEN "retry"
    ELSE IF r.status = 200
         THEN (IF ExtractContent(r.body).t = "raise" THEN "retry" ELSE "success")
         ELSE IF r.status = 429 \/ r.status >= 500 THEN "retry"
         ELSE IF 400 <= r.status /\ r.status < 500 THEN "terminal"
         ELSE "retry"

AttemptOutcome_other_terminal(r) ==
    IF r.kind # "http" THEN "retry"
    ELSE IF r.status = 200
         THEN (IF Truthy(ExtractContent(r.body)) THEN "success" ELSE "retry")
         ELSE IF r.status = 429 \/ r.status >= 500 THEN "retry"
         ELSE "terminal"

\* monica_client.py 107-142: what one iteration of the loop does with the answer
AttemptOutcome(r) ==
    IF r.kind # "http" THEN "retry"                        \* 137-142
    ELSE IF r.status = 200                                  \* 111
         THEN (IF Truthy(ExtractContent(r.body))            \* 112-114
               THEN "success"                               \* 117
               ELSE "retry")                                \* 119, 141-142
         ELSE IF r.status = 429 THEN "retry"                \* 121
         ELSE IF r.status >= 500 THEN "retry"               \* 125
         ELSE IF 400 <= r.status /\ r.status < 500          \* 132
              THEN "terminal"                               \* 135
              ELSE "retry"

\* seconds one POST blocks: the 60 s timeout, otherwise one second
PostSeconds(r) == IF r.kind = "timeout" THEN PostTimeout ELSE 1

PostEvent(r)  == [e |-> "post", r |-> r, d |-> 0]
SleepEvent(d) == [e |-> "sleep", r |-> Exc("none"), d |-> d]

SleepsAfter_always(att, ra, rd) ==
    <<SleepEvent(calculate_backoff_delay(att, rd, DefaultMaxDelay))>>

\* monica_client.py 144-148: the sleep that follows a failed attempt
SleepsAfter(att, ra, rd) ==
    IF att < ra - 1
    THEN <<SleepEvent(calculate_backoff_delay(att, rd, DefaultMaxDelay))>>
    ELSE <<>>

SumDelays(s) ==
    LET RECURSIVE Sum(_)
        Sum(i) == IF i = 0 THEN 0 ELSE s[i].d + Sum(i - 1)
    IN  Sum(Len(s))

ApiState(times) ==
    /\ apiPc = "idle"
    /\ caller = "none"
    /\ retry_attempts = 0
    /\ retry_delay = 0
    /\ attempt = 0
    /\ apiEvents = <<>>
    /\ apiContent = None
    /\ apiElapsed = 0
    /\ start_time = 0
    /\ now \in times
    /\ completeOut = [state |-> "none", value |-> None]

\* monica_client.py 19-35: a client on which no call was made yet
ApiInit == ApiState(StartTimes)

\* monica_client.py 77-104: entry of call_api, called directly
call_api ==
    /\ apiPc = "idle"
    /\ \E ra \in RetryAttempts, rd \in RetryDelays :
          /\ retry_attempts' = ra
          /\ retry_delay' = rd
    /\ caller' = "call_api"
    /\ apiPc' = "loop"
    /\ attempt' = 0
    /\ start_time' = now
    /\ UNCHANGED <<apiEvents, apiContent, apiElapsed, now, completeOut>>

\* monica_client.py 54-72: complete calls call_api with its own arguments
complete ==
    /\ apiPc = "idle"
    /\ \E ra \in RetryAttempts, rd \in RetryDelays :
          /\ retry_attempts' = ra
          /\ retry_delay' = rd
    /\ caller' = "complete"
    /\ completeOut' = [state |-> "pending", value |-> None]
    /\ apiPc' = "loop"
    /\ attempt' = 0
    /\ start_time' = now
    /\ UNCHANGED <<apiEvents, apiContent, apiElapsed, now>>

NextAttempt_same(att) == att

\* monica_client.py 106: `for attempt in range(retry_attempts)` moves to the
\* next index after every iteration that did not return
NextAttempt(att) == att + 1

\* monica_client.py 106-148: one iteration of the retry loop
Attempt ==
    /\ apiPc = "loop"
    /\ attempt < retry_attempts
    /\ \E r \in Responses :
         LET out    == AttemptOutcome(r)
             posted == now + PostSeconds(r)
             sleeps == SleepsAfter(attempt, retry_attempts, retry_delay)
         IN  CASE out = "success" ->
                    /\ apiEvents' = Append(apiEvents, PostEvent(r))
                    /\ now' = posted
                    /\ apiContent' = ExtractContent(r.body)
                    /\ apiElapsed' = posted - start_time
                    /\ apiPc' = "returned"
                    /\ UNCHANGED attempt
               [] out = "terminal" ->
                    /\ apiEvents' = Append(apiEvents, PostEvent(r))
                    /\ now' = posted
                    /\ apiContent' = None
                    /\ apiElapsed' = posted - start_time
                    /\ apiPc' = "returned"
                    /\ UNCHANGED attempt
               [] OTHER ->
                    /\ apiEvents' = Append(apiEvents, PostEvent(r)) \o sleeps
                    /\ now' = posted + SumDelays(sleeps)
                    /\ attempt' = NextAttempt(attempt)
                    /\ UNCHANGED <<apiContent, apiElapsed, apiPc>>
    /\ UNCHANGED <<caller, retry_attempts, retry_delay, start_time, completeOut>>

\* monica_client.py 150-152: the loop ran out of attempts
Exhausted ==
    /\ apiPc = "loop"
    /\ attempt >= retry_attempts
    /\ apiContent' = None
    /\ apiElapsed' = now - start_time
    /\ apiPc' = "returned"
    /\ UNCHANGED <<caller, retry_attempts, retry_delay, attempt, apiEvents,
                   start_time, now, completeOut>>

CompleteResult_silent(content) ==
    [state |-> "returned", value |-> content]

\* monica_client.py 73-75
CompleteResult(content) ==
    IF content = None
    THEN [state |-> "raised", value |-> None]
    ELSE [state |-> "returned", value |-> content]

\* monica_client.py 72-75: complete resumes when call_api has returned
complete_return ==
    /\ apiPc = "returned"
    /\ caller = "complete"
    /\ completeOut.state = "pending"
    /\ completeOut' = CompleteResult(apiContent)
    /\ UNCHANGED <<apiPc, caller, retry_attempts, retry_delay, attempt, apiEvents,
                   apiContent, apiElapsed, start_time, now>>

---------------------------------------------------------------------------
(* WebScraper                                                              *)

MinContentLength  == 500
MinKeywordMatches == 3
MaxLinks          == 50
MaxImages         == 20
DefaultMaxRetries == 3

\* bounds of the model
MaxRetries == 2     \* largest max_retries configured
MaxCalls   == 2     \* scrape_url calls made on one WebScraper instance

NotSet == [t |-> "unset", v |-> ""]

\* A text is its leading characters (head) followed by `fill` copies of "."
Text(head, fill) == [t |-> "text", v |-> [head |-> head, fill |-> fill]]
Msg(parts)       == [t |-> "msg", v |-> parts]
IntVal(n)           == [t |-> "int", v |-> n]

competition_keywords ==
    << <<"c", "o", "m", "p", "e", "t", "i", "t", "i", "o", "n">>,
       <<"a", "p", "p", "l", "y">>,
       <<"a", "p", "p", "l", "i", "c", "a", "t", "i", "o", "n">>,
       <<"d", "e", "a", "d", "l", "i", "n", "e">>,
       <<"p", "r", "i", "z", "e">>,
       <<"e", "l", "i", "g", "i", "b", "i", "l", "i", "t", "y">>,
       <<"r", "e", "q", "u", "i", "r", "e", "m", "e", "n", "t", "s">>,
       <<"s", "u", "b", "m", "i", "t">>,
       <<"p", "a", "r", "t", "i", "c", "i", "p", "a", "n", "t", "s">>,
       <<"w", "i", "n", "n", "e", "r">>,
       <<"s", "t", "a", "r", "t", "u", "p">>,
       <<"i", "n", "n", "o", "v", "a", "t", "i", "o", "n">>,
       <<"e", "n", "t", "r", "e", "p", "r", "e", "n", "e", "u", "r">>,
       <<"f", "u", "n", "d", "i", "n", "g">>,
       <<"i", "n", "v", "e", "s", "t", "m", "e", "n", "t">>,
       <<"a", "c", "c", "e", "l", "e", "r", "a", "t", "o", "r">> >>

UpperChars == <<"A", "B", "C", "D", "E", "F", "G", "H", "I", "J", "K", "L", "M",
                "N", "O", "P", "Q", "R", "S", "T", "U", "V", "W", "X", "Y", "Z">>
LowerChars == <<"a", "b", "c", "d", "e", "f", "g", "h", "i", "j", "k", "l", "m",
                "n", "o", "p", "q", "r", "s", "t", "u", "v", "w", "x", "y", "z">>
Whitespace == {" ", "\n", "\t"}

\* str.lower() on one character and on a sequence of characters
LowerChar(c) ==
    IF \E i \in 1..Len(UpperChars) : UpperChars[i] = c
    THEN LowerChars[CHOOSE i \in 1..Len(UpperChars) : UpperChars[i] = c]
    ELSE c

Lower(s) == [i \in 1..Len(s) |-> LowerChar(s[i])]

\* `keyword in s` for sequences of characters
Contains(s, kw) ==
    \E i \in 0..(Len(s) - Len(kw)) : \A j \in 1..Len(kw) : s[i + j] = kw[j]

\* len(text) and len(text.strip())
TextLen(x) == Len(x.head) + x.fill

LeadingWs(s) ==
    LET RECURSIVE L(_)
        L(i) == IF i > Len(s) THEN 0
                ELSE IF s[i] \in Whitespace THEN 1 + L(i + 1) ELSE 0
    IN  L(1)

TrailingWs(s) ==
    LET RECURSIVE T(_)
        T(i) == IF i < 1 THEN 0
                ELSE IF s[i] \in Whitespace THEN 1 + T(i - 1) ELSE 0
    IN  T(Len(s))

StrippedLen(x) ==
    IF x.fill > 0
    THEN TextLen(x) - LeadingWs(x.head)
    ELSE IF LeadingWs(x.head) = Len(x.head) THEN 0
         ELSE Len(x.head) - LeadingWs(x.head) - TrailingWs(x.head)

KeywordMatches(x) ==
    Cardinality({k \in 1..Len(competition_keywords) :
                    Contains(Lower(x.head), competition_keywords[k])})

is_content_sufficient_length_only(content) ==
    IF content.t # "text" THEN FALSE
    ELSE IF TextLen(content.v) = 0 THEN FALSE
    ELSE StrippedLen(content.v) >= MinContentLength

\* web_scraper.py 470-495
is_content_sufficient(content) ==
    IF content.t # "text" THEN FALSE                               \* 477 (None)
    ELSE IF TextLen(content.v) = 0 THEN FALSE                      \* 477 ("")
    ELSE IF StrippedLen(content.v) < MinContentLength THEN FALSE   \* 481
    ELSE KeywordMatches(content.v) >= MinKeywordMatches            \* 491-495

\* URLs are sequences of tokens: scheme, ":", "//", host, path
PathTokens == {"/comp"}
Urls ==
    { <<"https", ":", "//", "example.org", "/comp">>,
      <<"example.org", "/comp">>,
      <<"https", ":", "//", "/comp">>,
      <<"//", "example.org", "/comp">>,
      <<>> }

\* urllib.parse.urlparse as used at web_scraper.py 436: scheme and netloc
urlparse(u) ==
    LET hasScheme == Len(u) >= 2 /\ u[2] = ":" /\ u[1] \notin {"//", ":"} \cup PathTokens
        rest      == IF hasScheme THEN SubSeq(u, 3, Len(u)) ELSE u
        hasNetloc == Len(rest) >= 2 /\ rest[1] = "//" /\ rest[2] \notin PathTokens
    IN  [scheme |-> IF hasScheme THEN u[1] ELSE "",
         netloc |-> IF hasNetloc THEN rest[2] ELSE ""]

\* web_scraper.py 437: all([parsed_url.scheme, parsed_url.netloc])
url_is_valid(u) == urlparse(u).scheme # "" /\ urlparse(u).netloc # ""

\* urljoin(base, href) of lines 184-189 and 366-369
urljoin(base, href) == [base |-> base, href |-> href]

HeadRich  == <<"A", "p", "p", "l", "y", " ", "n", "o", "w", ":", " ", "P", "R", "I",
               "Z", "E", " ", "f", "u", "n", "d", ",", " ", "D", "e", "a", "d", "l",
               "i", "n", "e", " ", "1", " ", "M", "a", "y">>
HeadShort == <<"L", "o", "a", "d", "i", "n", "g">>
HeadNews  == <<"C", "o", "m", "p", "a", "n", "y", " ", "n", "e", "w", "s", " ", "a",
               "n", "d", " ", "p", "r", "e", "s", "s">>

\* n elements in document order, the first k of them inside a <nav>,
\* <header>, <footer>, <script> or <style> element
Elements(n, k) == [i \in 1..n |-> [ref |-> i, removed |-> i <= k]]

\* A page as the parser sees it: the text of its main content, its title and
\* meta description, and its <a href> and <img src> elements
Page(text, title, meta, links, images) ==
    [text |-> text, title |-> title, meta |-> meta, links |-> links, images |-> images]

PageRich  == Page(Text(HeadRich, 600), Str("Challenge"), Str("Apply"),
                  Elements(52, 0), Elements(21, 0))
PageShort == Page(Text(HeadShort, 93), None, None, Elements(2, 0), Elements(0, 0))
PageNews  == Page(Text(HeadNews, 600), Str("News"), None, Elements(3, 2), Elements(1, 1))
PageEmpty == Page(Text(<<>>, 0), None, None, Elements(0, 0), Elements(0, 0))

Pages == {PageRich, PageShort, PageNews, PageEmpty}

RequestErrors == {"503 Server Error", "Connection refused"}

\* one static attempt: a RequestException, another exception, or a 2xx page
StaticOutcomes ==
    { [kind |-> "request_error", e |-> e, page |-> PageEmpty] : e \in RequestErrors }
    \cup { [kind |-> "exception", e |-> "parser failure", page |-> PageEmpty] }
    \cup { [kind |-> "page", e |-> "", page |-> p] : p \in Pages }

\* starting Chrome: it starts, it fails to start, or it starts and the script
\* of line 295 fails
ChromeOutcomes == {"ok", "start_fails", "script_fails"}

\* web_scraper.py 301-307: reading driver.current_url of the session held
\* answers, or raises while the browser and its driver process still run (the
\* window was closed, the command timed out), or raises because they are gone
DriverProbes == {"responsive", "unresponsive", "gone"}

\* navigating and waiting: a rendered page, or one of the three except clauses
DynamicOutcomes ==
    { [kind |-> k, e |-> "renderer crashed", page |-> PageEmpty] :
          k \in {"timeout", "webdriver_error", "exception"} }
    \cup { [kind |-> "page", e |-> "", page |-> p] : p \in Pages }

\* ScrapingResult (web_scraper.py 36-54)
ScrapingResult(u, success, content, title, meta, links, images, err, method, ts) ==
    [url |-> u, success |-> success, content |-> content, title |-> title,
     meta_description |-> meta, links |-> links, images |-> images,
     error_message |-> err, scraping_method |-> method, timestamp |-> ts]

FailureResult(u, err, method, ts) ==
    ScrapingResult(u, FALSE, None, None, None, None, None, err, method, IntVal(ts))

\* web_scraper.py 235-236: _extract_content_from_soup decomposes the <script>,
\* <style>, <nav>, <footer> and <header> elements of the soup; soup.find_all
\* at 184-189 and 366-369 runs on what is left
Decomposed(s)    == SelectSeq(s, LAMBDA el : ~el.removed)
FirstN(s, n)     == SubSeq(s, 1, Min(Len(s), n))
Joined(base, s)  == [i \in 1..Len(s) |-> urljoin(base, s[i].ref)]

\* web_scraper.py 172-203 and 351-383: the record built from a fetched page
SuccessResult(u, base, p, title, method, ts) ==
    ScrapingResult(u, TRUE, p.text, title, p.meta,
                   Arr(FirstN(Joined(base, Decomposed(p.links)), MaxLinks)),
                   Arr(FirstN(Joined(base, Decomposed(p.images)), MaxImages)),
                   None, Str(method), IntVal(ts))

\* f-string formatting of an optional message
Fmt(m) == IF m.t = "msg" THEN m.v ELSE <<"None">>

StaticAttemptResult_no_retry(o, u, att, retries, ts) ==
    CASE o.kind = "page" ->
            SuccessResult(u, u, o.page, o.page.title, "static", ts)
      [] o.kind = "request_error" ->
            FailureResult(u, Msg(<<"Static scraping failed after ",
                                   ToString(retries), " attempts: ", o.e>>),
                          Str("static"), ts)
      [] OTHER ->
            FailureResult(u, Msg(<<"Unexpected error: ", o.e>>), Str("static"), ts)

StaticAttemptResult_retry_all(o, u, att, retries, ts) ==
    CASE o.kind = "page" ->
            SuccessResult(u, u, o.page, o.page.title, "static", ts)
      [] o.kind = "request_error" ->
            IF att = retries - 1
            THEN FailureResult(u, Msg(<<"Static scraping failed after ",
                                        ToString(retries), " attempts: ", o.e>>),
                               Str("static"), ts)
            ELSE NotSet
      [] OTHER ->
            IF att = retries - 1
            THEN FailureResult(u, Msg(<<"Unexpected error: ", o.e>>), Str("static"), ts)
            ELSE NotSet

\* web_scraper.py 154-224: what one static attempt returns; NotSet when the
\* loop goes on to the next attempt
StaticAttemptResult(o, u, att, retries, ts) ==
    CASE o.kind = "page" ->
            SuccessResult(u, u, o.page, o.page.title, "static", ts)        \* 193-203
      [] o.kind = "request_error" ->
            IF att = retries - 1                                            \* 207
            THEN FailureResult(u, Msg(<<"Static scraping failed after ",
                                        ToString(retries), " attempts: ", o.e>>),
                               Str("static"), ts)
            ELSE NotSet
      [] OTHER ->
            FailureResult(u, Msg(<<"Unexpected error: ", o.e>>), Str("static"), ts)

\* web_scraper.py 454-460: the test on static_result; None has no attribute
\* `success`
AfterStatic(sr) ==
    IF sr = None THEN "raise"
    ELSE IF sr.success /\ is_content_sufficient(sr.content) THEN "return"
    ELSE "dynamic"

\* web_scraper.py 325-416: the result of scrape_dynamic_content
DynamicResult(u, started, chrome, o, ts) ==
    IF ~started
    THEN FailureResult(u, Msg(<<"WebDriver error for ">> \o u \o <<": ", chrome>>),
                       Str("dynamic"), ts)                                  \* 396-405
    ELSE CASE o.kind = "page" ->
                 SuccessResult(u, u, o.page,
                               IF o.page.title = None THEN Str("") ELSE o.page.title,
                               "dynamic", ts)                               \* 373-383
           [] o.kind = "timeout" ->
                 FailureResult(u, Msg(<<"Page load timeout for ">> \o u),
                               Str("dynamic"), ts)                          \* 385-394
           [] o.kind = "webdriver_error" ->
                 FailureResult(u, Msg(<<"WebDriver error for ">> \o u \o <<": ", o.e>>),
                               Str("dynamic"), ts)                          \* 396-405
           [] OTHER ->
                 FailureResult(u, Msg(<<"Unexpected error during dynamic scraping: ",
                                        o.e>>), Str("dynamic"), ts)         \* 407-416

Combine_dynamic_only(sr, dr) == dr

\* web_scraper.py 462-468
Combine(sr, dr) ==
    IF dr.success THEN dr
    ELSE [sr EXCEPT !.error_message =
             Msg(<<"Both static and dynamic scraping failed. Static: ">>
                 \o Fmt(sr.error_message) \o <<", Dynamic: ">> \o Fmt(dr.error_message))]

ScraperState(retries) ==
    /\ max_retries \in retries
    /\ driver = 0
    /\ sessions = <<>>
    /\ http_closed = FALSE
    /\ scPc = "idle"
    /\ url = <<>>
    /\ force_dynamic = FALSE
    /\ sAttempt = 0
    /\ static_result = NotSet
    /\ dynamic_result = NotSet
    /\ scResult = NotSet
    /\ scEvents = <<>>
    /\ scCalls = 0
    /\ scClock = 0
    /\ soup = [static |-> NotSet, dynamic |-> NotSet]
    /\ scope = "none"
    /\ scLast = "__init__"
    /\ sOutcome = NotSet

\* web_scraper.py 68-91: a scraper configured with some max_retries
ScraperInit == ScraperState(0..MaxRetries)

EntryPc_dynamic_first(u, force) ==
    IF force THEN "dynamic"
    ELSE IF ~url_is_valid(u) THEN "invalid"
    ELSE "static"

\* web_scraper.py 435-451: where scrape_url goes after its first lines
EntryPc(u, force) ==
    IF ~url_is_valid(u) THEN "invalid"          \* 437-443
    ELSE IF force THEN "dynamic"                \* 446-448
    ELSE "static"                               \* 451

\* web_scraper.py 418-451: entry of scrape_url
scrape_url_call(u, force) ==
    /\ scPc \in {"idle", "done", "raised"}
    /\ scope # "exited"
    /\ url' = u
    /\ force_dynamic' = force
    /\ IF EntryPc(u, force) = "invalid"
       THEN /\ scPc' = "done"
            /\ scResult' = FailureResult(u, Msg(<<"Invalid URL format">>),
                                         None, scClock + 1)
       ELSE /\ scPc' = EntryPc(u, force)
            /\ scResult' = NotSet
    /\ sAttempt' = 0
    /\ static_result' = NotSet
    /\ dynamic_result' = NotSet
    /\ scEvents' = <<>>
    /\ scCalls' = scCalls + 1
    /\ scClock' = scClock + 1
    /\ soup' = [static |-> NotSet, dynamic |-> NotSet]
    /\ scLast' = "scrape_url"
    /\ sOutcome' = NotSet
    /\ UNCHANGED <<max_retries, driver, sessions, http_closed, scope>>

\* scrape_url called by the owner of the instance, with any arguments
scrape_url ==
    /\ scCalls < MaxCalls
    /\ \E u \in Urls, force \in BOOLEAN : scrape_url_call(u, force)

\* web_scraper.py 154-224, then 454-460: one attempt of the static loop
StaticAttempt ==
    /\ scPc = "static"
    /\ sAttempt < max_retries
    /\ \E o \in StaticOutcomes :
         LET evs == (IF sAttempt > 0 THEN <<"delay">> ELSE <<>>) \o <<"get">>
             ts  == scClock + 1
             res == StaticAttemptResult(o, url, sAttempt, max_retries, ts)
         IN  /\ scEvents' = scEvents \o evs
             /\ scClock' = ts
             /\ sOutcome' = [kind |-> o.kind, e |-> o.e]
             /\ soup' = IF o.kind = "page" THEN [soup EXCEPT !.static = o.page]
                        ELSE soup
             /\ IF res = NotSet
                THEN /\ sAttempt' = sAttempt + 1
                     /\ UNCHANGED <<scPc, static_result, scResult>>
                ELSE /\ static_result' = res
                     /\ UNCHANGED sAttempt
                     /\ IF AfterStatic(res) = "return"
                        THEN scPc' = "done" /\ scResult' = res
                        ELSE scPc' = "dynamic" /\ UNCHANGED scResult
    /\ http_closed' = FALSE
    /\ UNCHANGED <<max_retries, driver, sessions, url, force_dynamic,
                   dynamic_result, scCalls, scope, scLast>>

\* web_scraper.py 154, 224: the loop ends without a return (implicit None),
\* then 454
StaticExit ==
    /\ scPc = "static"
    /\ sAttempt >= max_retries
    /\ static_result' = None
    /\ CASE AfterStatic(None) = "raise"  -> scPc' = "raised" /\ scResult' = Raised
         [] AfterStatic(None) = "return" -> scPc' = "done" /\ scResult' = None
         [] OTHER                        -> scPc' = "dynamic" /\ UNCHANGED scResult
    /\ UNCHANGED <<max_retries, driver, sessions, http_closed, url, force_dynamic,
                   sAttempt, dynamic_result, scEvents, scCalls, scClock, soup,
                   scope, scLast,
                   sOutcome>>

\* web_scraper.py 309-416 (with 267-307), then 448 or 462-468
DynamicFetch ==
    /\ scPc = "dynamic"
    /\ \E probe \in DriverProbes, chrome \in ChromeOutcomes, o \in DynamicOutcomes :
         LET reuse   == driver # 0 /\ probe = "responsive"                 \* 274
             create  == ~reuse /\ chrome # "start_fails"                   \* 293
             started == reuse \/ (~reuse /\ chrome = "ok")
             seen    == IF driver # 0 /\ probe = "gone"
                        THEN [sessions EXCEPT ![driver] = "dead"]
                        ELSE sessions
             ts      == scClock + 1
             dr      == DynamicResult(url, started, chrome, o, ts)
         IN  /\ sessions' = IF create THEN Append(seen, "live") ELSE seen
             /\ driver' = IF create THEN Len(seen) + 1 ELSE driver
             /\ scEvents' = scEvents
                            \o (IF reuse THEN <<>> ELSE <<"chrome_start">>)
                            \o (IF started THEN <<"navigate">> ELSE <<>>)
             /\ scClock' = ts
             /\ soup' = IF started /\ o.kind = "page"
                        THEN [soup EXCEPT !.dynamic = o.page]
                        ELSE soup
             /\ dynamic_result' = dr
             /\ IF force_dynamic
                THEN scResult' = dr /\ UNCHANGED static_result             \* 448
                ELSE /\ scResult' = Combine(static_result, dr)             \* 462-468
                     /\ UNCHANGED static_result
                          \* static_result keeps what scrape_static_content
                          \* returned; 467 changes the object that is returned
             /\ scPc' = "done"
    /\ UNCHANGED <<max_retries, http_closed, url, force_dynamic, sAttempt, scCalls,
                   scope, scLast,
                   sOutcome>>

\* driver.quit() returns, or raises
QuitOutcomes == {"quit", "quit_failed"}

DriverAfterQuit_no_finally(d, q) == IF q = "quit_failed" THEN d ELSE 0

\* web_scraper.py 525-532: self.driver after the try / except / finally
DriverAfterQuit(d, q) == 0

\* web_scraper.py 518-535: the body of close()
CloseBody(q) ==
    /\ IF driver # 0                                                 \* 525
       THEN /\ sessions' = [sessions EXCEPT ![driver] = q]           \* 527
            /\ driver' = DriverAfterQuit(driver, q)                  \* 529-532
       ELSE UNCHANGED <<sessions, driver>>
    /\ http_closed' = TRUE                                           \* 535
    /\ scLast' = "close"

\* web_scraper.py 518-535: close() called by the owner of the instance
close ==
    /\ scPc \in {"idle", "done", "raised"}
    /\ scope # "exited"
    /\ driver # 0 \/ ~http_closed
    /\ \E q \in QuitOutcomes : CloseBody(q)
    /\ UNCHANGED <<max_retries, scPc, url, force_dynamic, sAttempt, static_result,
                   dynamic_result, scResult, scEvents, scCalls, scClock, soup, scope,
                   sOutcome>>

\* web_scraper.py 537-539, workflow_execution.py 110: `with WebScraper(...) as
\* scraper` enters the block with the new instance
enter ==
    /\ scope = "none"
    /\ scLast = "__init__"
    /\ scope' = "with"
    /\ UNCHANGED <<max_retries, driver, sessions, http_closed, scPc, url,
                   force_dynamic, sAttempt, static_result, dynamic_result, scResult,
                   scEvents, scCalls, scClock, soup, scLast,
                   sOutcome>>

\* web_scraper.py 541-543: what __exit__ calls
ExitCalls(q) == CloseBody(q)

\* web_scraper.py 541-543: the block is left, because its body completed or
\* because a call in it raised
exit ==
    /\ scope = "with"
    /\ scPc \in {"idle", "done", "raised"}
    /\ \E q \in QuitOutcomes : ExitCalls(q)
    /\ scope' = "exited"
    /\ UNCHANGED <<max_retries, scPc, url, force_dynamic, sAttempt, static_result,
                   dynamic_result, scResult, scEvents, scCalls, scClock, soup,
                   sOutcome>>

---------------------------------------------------------------------------
(* ContentParser                                                           *)

Bool(b)   == [t |-> "bool", v |-> b]
EmptyDict == [k \in {} |-> None]

\* `k in x` for a str key k: dict membership, list membership, or the
\* containment test on a str (the strings of the model contain no key but
\* themselves); TypeError on None, numbers and booleans
InRaises(x) == x.t \notin {"obj", "arr", "str"}
PyIn(k, x) ==
    CASE x.t = "obj" -> k \in DOMAIN x.v
      [] x.t = "arr" -> \E i \in 1..Len(x.v) : x.v[i] = Str(k)
      [] x.t = "str" -> x.v = k
      [] OTHER       -> FALSE

\* content_parser.py 248-265: weights, in hundredths, in dict order
WeightedSections ==
    <<"competition_basic_info", "benefits_and_prizes", "target_participants",
      "competition_focus">>

weights ==
    [competition_basic_info |->
         << [field |-> "name", weight |-> 15],
            [field |-> "organizer", weight |-> 10],
            [field |-> "application_status", weight |-> 15],
            [field |-> "deadline", weight |-> 20] >>,
     benefits_and_prizes |->
         << [field |-> "prize_fund", weight |-> 15],
            [field |-> "benefits", weight |-> 10] >>,
     target_participants |->
         << [field |-> "criteria", weight |-> 10] >>,
     competition_focus |->
         << [field |-> "stage_preference", weight |-> 5] >>]

\* a confidence score score / total_weight, kept as the two sums
Ratio(score, total_weight) ==
    [t |-> "ratio", v |-> [num |-> score, den |-> total_weight]]

\* content_parser.py 267-272: the two nested loops; acc holds score,
\* total_weight and whether an exception was raised
ScoreFields(sec, fields, acc) ==
    LET RECURSIVE F(_, _)
        F(i, a) ==
            IF i > Len(fields) \/ a.raised THEN a
            ELSE LET w   == fields[i].weight
                     fld == fields[i].field
                     a1  == [a EXCEPT !.total_weight = @ + w]             \* 270
                 IN  IF InRaises(sec) THEN [a1 EXCEPT !.raised = TRUE]    \* 271
                     ELSE IF ~PyIn(fld, sec) THEN F(i + 1, a1)
                     ELSE IF sec.t # "obj"                               \* 271: sec[fld]
                          THEN [a1 EXCEPT !.raised = TRUE]
                     ELSE IF Truthy(sec.v[fld])
                          THEN F(i + 1, [a1 EXCEPT !.score = @ + w])      \* 272
                     ELSE F(i + 1, a1)
    IN  F(1, acc)

ScoreSections(data) ==
    LET RECURSIVE S(_, _)
        S(i, a) ==
            IF i > Len(WeightedSections) \/ a.raised THEN a
            ELSE LET s == WeightedSections[i]
                 IN  IF InRaises(data) THEN [a EXCEPT !.raised = TRUE]  \* 268
                     ELSE IF ~PyIn(s, data) THEN S(i + 1, a)
                     ELSE IF data.t # "obj"               \* 271: data[s]
                          THEN [a EXCEPT !.raised = TRUE]
                     ELSE S(i + 1, ScoreFields(data.v[s], weights[s], a))
    IN  S(1, [score |-> 0, total_weight |-> 0, raised |-> FALSE])

validate_parsed_data_full_total(data) ==
    LET a == ScoreSections(data)
    IN  IF a.raised THEN Raised ELSE Ratio(a.score, 100)

validate_parsed_data_found_only(data) ==
    LET a == ScoreSections(data)
    IN  IF a.raised THEN Raised
        ELSE IF a.score > 0 THEN Ratio(a.score, a.score)
        ELSE Ratio(0, 1)

\* content_parser.py 237-274
validate_parsed_data(data) ==
    LET a == ScoreSections(data)
    IN  IF a.raised THEN Raised
        ELSE IF a.total_weight > 0
             THEN IF a.score > a.total_weight                             \* min(.., 1.0)
                  THEN Ratio(a.total_weight, a.total_weight)
                  ELSE Ratio(a.score, a.total_weight)
             ELSE Ratio(0, 1)                                             \* 0.0

\* ParsedCompetitionInfo (content_parser.py 16-48)
DataFields ==
    << [attr |-> "name",                 section |-> "competition_basic_info", key |-> "name"],
       [attr |-> "organizer",            section |-> "competition_basic_info", key |-> "organizer"],
       [attr |-> "partners",             section |-> "competition_basic_info", key |-> "partners"],
       [attr |-> "application_status",   section |-> "competition_basic_info", key |-> "application_status"],
       [attr |-> "deadline",             section |-> "competition_basic_info", key |-> "deadline"],
       [attr |-> "target_description",   section |-> "target_participants",    key |-> "description"],
       [attr |-> "eligibility_criteria", section |-> "target_participants",    key |-> "criteria"],
       [attr |-> "stage_preference",     section |-> "competition_focus",      key |-> "stage_preference"],
       [attr |-> "industry_focus",       section |-> "competition_focus",      key |-> "industry_focus"],
       [attr |-> "innovation_type",      section |-> "competition_focus",      key |-> "innovation_type"],
       [attr |-> "prize_fund",           section |-> "benefits_and_prizes",    key |-> "prize_fund"],
       [attr |-> "benefits",             section |-> "benefits_and_prizes",    key |-> "benefits"],
       [attr |-> "support_offered",      section |-> "benefits_and_prizes",    key |-> "support_offered"],
       [attr |-> "explicit_criteria",    section |-> "evaluation_criteria",    key |-> "explicit_criteria"],
       [attr |-> "implied_preferences",  section |-> "evaluation_criteria",    key |-> "implied_preferences"] >>

DataAttrs     == {DataFields[i].attr : i \in 1..Len(DataFields)}
MetadataAttrs == {"confidence_score", "parsing_timestamp", "raw_content_length"}
Sections      == {DataFields[i].section : i \in 1..Len(DataFields)}

FieldOf(attr) == DataFields[CHOOSE i \in 1..Len(DataFields) : DataFields[i].attr = attr]

\* content_parser.py 313-317, 319-339: data.get(section, {}) and the .get(key)
\* on what it returned
SectionOf(data, section) == PyGet(data, section, Obj(EmptyDict))

dict_to_parsed_info(data) ==
    IF data.t # "obj" THEN Raised                                         \* 313
    ELSE IF \E s \in Sections : SectionOf(data, s).t # "obj" THEN Raised  \* 320-338
    ELSE [a \in DataAttrs \cup MetadataAttrs |->
            IF a \in MetadataAttrs THEN None
            ELSE PyGet(SectionOf(data, FieldOf(a).section), FieldOf(a).key, None)]

KeysOf(section) ==
    {DataFields[i].key : i \in {j \in 1..Len(DataFields) : DataFields[j].section = section}}
AttrOf(section, key) ==
    DataFields[CHOOSE i \in 1..Len(DataFields) :
                  DataFields[i].section = section /\ DataFields[i].key = key].attr

\* content_parser.py 345-376: the dictionary save_parsed_info serializes
save_parsed_info(parsed_info) ==
    Obj([s \in Sections \cup {"metadata"} |->
           IF s = "metadata"
           THEN Obj([a \in MetadataAttrs |-> parsed_info[a]])
           ELSE Obj([k \in KeysOf(s) |-> parsed_info[AttrOf(s, k)]])])

\* content_parser.py 237: the parsed data validate_parsed_data is applied to.
\* A dictionary is built from the entries that are not Absent.
Absent == [t |-> "absent", v |-> ""]
MkDict(f) == Obj([k \in {j \in DOMAIN f : f[j] # Absent} |-> f[k]])

BasicInfos ==
    { Absent, None, Obj(EmptyDict),
      Obj([name |-> Str("X")]),
      Obj([name |-> Str("X"), organizer |-> Str(""), application_status |-> None,
           deadline |-> Str("1 May")]),
      Obj([name |-> Str("X"), organizer |-> Str("Y"), application_status |-> Str("open"),
           deadline |-> Str("1 May"), partners |-> Arr(<<Str("Z")>>)]) }
BenefitInfos ==
    { Absent, Obj(EmptyDict),
      Obj([prize_fund |-> Str("5,000"), benefits |-> Arr(<<>>)]),
      Obj([prize_fund |-> Str("5,000"), benefits |-> Arr(<<Str("Mentorship")>>)]),
      Arr(<<Str("prize_fund")>>) }
TargetInfos ==
    { Absent, Obj([criteria |-> Arr(<<Str("UK company")>>)]),
      Obj([description |-> Str("founders")]) }
FocusInfos ==
    { Absent, Obj([stage_preference |-> Str("mvp")]), Str("mvp") }

ParsedObjects ==
    { MkDict([competition_basic_info |-> b, benefits_and_prizes |-> p,
              target_participants |-> g, competition_focus |-> f]) :
        b \in BasicInfos, p \in BenefitInfos, g \in TargetInfos, f \in FocusInfos }

\* truthy JSON values that are not objects
NonObjects ==
    { Arr(<<Str("a")>>), Arr(<<Str("competition_basic_info")>>), Str("abc"),
      IntVal(5), Bool(TRUE) }

\* What the patterns and keyword lists of parse_with_rules find in a content:
\* the text matched by the first prize pattern and by the first deadline
\* pattern (None when none matches), the groups of status phrases, the
\* benefit keywords (by position in benefit_keywords) and the stages with a
\* keyword in the content; len is len(content).
benefit_keywords ==
    <<"mentorship", "networking", "funding", "investment", "support",
      "guidance", "resources", "exposure", "recognition", "accelerator">>
Capitalized ==
    <<"Mentorship", "Networking", "Funding", "Investment", "Support",
      "Guidance", "Resources", "Exposure", "Recognition", "Accelerator">>
stage_keywords == <<"idea", "mvp", "seed", "growth">>

ContentOpen ==
    [len |-> 61, prize |-> Str("5,000 pounds"), deadline |-> Str("01/02/2025"),
     phrases |-> {"open"}, benefits |-> {1}, stages |-> {"seed"}]
ContentBusy ==
    [len |-> 900, prize |-> None, deadline |-> None,
     phrases |-> {"closed", "open"}, benefits |-> {1, 2, 3, 5, 6, 8, 10},
     stages |-> {"mvp", "growth"}]
ContentPlain ==
    [len |-> 40, prize |-> None, deadline |-> None, phrases |-> {}, benefits |-> {},
     stages |-> {}]
ContentNone ==
    [len |-> 0, prize |-> None, deadline |-> None, phrases |-> {}, benefits |-> {},
     stages |-> {}]

ParserContents == {ContentOpen, ContentBusy, ContentPlain, ContentNone}

Entry(key, value) == IF value = Absent THEN EmptyDict ELSE key :> value

StatusOf_open_first(content) ==
    IF "open" \in content.phrases THEN Str("open")
    ELSE IF "closed" \in content.phrases THEN Str("closed")
    ELSE IF "upcoming" \in content.phrases THEN Str("upcoming")
    ELSE Absent

\* content_parser.py 196-202
StatusOf(content) ==
    IF "closed" \in content.phrases THEN Str("closed")
    ELSE IF "open" \in content.phrases THEN Str("open")
    ELSE IF "upcoming" \in content.phrases THEN Str("upcoming")
    ELSE Absent

\* content_parser.py 205-216: the keywords found, capitalized, at most 5
BenefitsOf(content) ==
    LET found == SelectSeq([i \in 1..Len(benefit_keywords) |-> i],
                           LAMBDA i : i \in content.benefits)
        names == [i \in 1..Len(found) |-> Str(Capitalized[found[i]])]
    IN  IF Len(found) = 0 THEN Absent ELSE Arr(SubSeq(names, 1, Min(Len(names), 5)))

\* content_parser.py 219-230
StageOf(content) ==
    LET hits == SelectSeq(stage_keywords, LAMBDA st : st \in content.stages)
    IN  IF Len(hits) = 0 THEN Absent ELSE Str(hits[1])

OrAbsent(x) == IF x = None THEN Absent ELSE x

parse_with_rules_sparse(content) ==
    Obj([competition_basic_info |->
             Obj(Entry("deadline", OrAbsent(content.deadline))
                 @@ Entry("application_status", StatusOf(content))),
         competition_focus |->
             Obj(Entry("stage_preference", StageOf(content))),
         benefits_and_prizes |->
             Obj(Entry("prize_fund", OrAbsent(content.prize))
                 @@ Entry("benefits", BenefitsOf(content)))])

\* content_parser.py 152-235
parse_with_rules(content) ==
    Obj([competition_basic_info |->
             Obj(Entry("deadline", OrAbsent(content.deadline))
                 @@ Entry("application_status", StatusOf(content))),
         target_participants |-> Obj(EmptyDict),
         competition_focus |->
             Obj(Entry("stage_preference", StageOf(content))),
         benefits_and_prizes |->
             Obj(Entry("prize_fund", OrAbsent(content.prize))
                 @@ Entry("benefits", BenefitsOf(content))),
         evaluation_criteria |-> Obj(EmptyDict)])

\* content_parser.py 152: the contents parse_with_rules is applied to: any of
\* the three status phrase groups, of the four stage keyword groups, and some
\* sets of benefit keywords (by their position in benefit_keywords), with or
\* without a text a prize pattern matches and a date a deadline pattern matches
StatusGroups == {"closed", "open", "upcoming"}
BenefitSets  == {{}, {4}, {2, 10}, 1..5, {1, 2, 3, 5, 6, 8, 10}, 1..10}
RuleContents ==
    [len : {61}, prize : {None, Str("5,000 pounds")},
     deadline : {None, Str("01/02/2025")}, phrases : SUBSET StatusGroups,
     benefits : BenefitSets,
     stages : SUBSET {stage_keywords[i] : i \in 1..Len(stage_keywords)}]

RulesIdle == [content |-> NotSet, result |-> NotSet, confidence |-> NotSet]
RulesInit ==
    pr \in {[content |-> c, result |-> NotSet, confidence |-> NotSet] : c \in RuleContents}

RulesApply ==
    /\ pr.content # NotSet
    /\ pr.result = NotSet
    /\ pr' = [pr EXCEPT !.result = parse_with_rules(pr.content)]

\* content_parser.py 297: parse_content validates what parse_with_rules returned
RulesValidate ==
    /\ pr.result # NotSet
    /\ pr.confidence = NotSet
    /\ pr' = [pr EXCEPT !.confidence = validate_parsed_data(pr.result)]

\* What self.llm_client.complete(prompt) does: it raises, or it returns a text
\* that json.loads rejects, or a text that is the JSON value `json`
FalsyJson == {None, Obj(EmptyDict), Arr(<<>>), Str(""), IntVal(0), Bool(FALSE)}
NullSections ==
    { Obj([evaluation_criteria |-> None]),
      Obj([competition_basic_info |-> Obj([name |-> Str("X")]),
           evaluation_criteria |-> Str("jury")]) }
JsonValues == ParsedObjects \cup NonObjects \cup FalsyJson \cup NullSections

LlmOutcomes ==
    { [kind |-> "raises", json |-> None], [kind |-> "text", json |-> NotJson] }
    \cup { [kind |-> "text", json |-> v] : v \in JsonValues }

LlmKind(o) ==
    IF o.kind = "raises" THEN "raises"
    ELSE IF o.json = NotJson THEN "notjson"
    ELSE "json"

\* content_parser.py 129-150: what parse_with_llm returns
LlmParsed(o) ==
    IF o.kind = "raises" THEN None              \* 148-150
    ELSE IF o.json = NotJson THEN None          \* 145-147
    ELSE o.json                                 \* 136, 139

ParserState(clients) ==
    /\ llm_client \in clients
    /\ cpPc = "idle"
    /\ cpContent = ContentNone
    /\ parsed_data = None
    /\ cpResult = NotSet
    /\ cpEvents = <<>>
    /\ cpClock = 0

\* content_parser.py 54-66: a parser with or without an LLM client
ParserInit == ParserState(BOOLEAN)

\* content_parser.py 276-289: entry of parse_content
parse_content ==
    /\ cpPc = "idle"
    /\ \E c \in ParserContents : cpContent' = c
    /\ parsed_data' = None                                           \* 287
    /\ cpPc' = IF llm_client THEN "llm" ELSE "rules"                 \* 288, 292
    /\ UNCHANGED <<llm_client, cpResult, cpEvents, cpClock>>

NeedsRules_only_none(data) == data = None

\* content_parser.py 292: `if not parsed_data`, the test that sends the call to
\* the rule-based parser
NeedsRules(data) == ~Truthy(data)

\* content_parser.py 289 (119-150), then 292
parse_with_llm ==
    /\ cpPc = "llm"
    /\ \E o \in LlmOutcomes :
         /\ parsed_data' = LlmParsed(o)
         /\ cpEvents' = Append(cpEvents, [e |-> "complete", out |-> LlmKind(o), json |-> o.json])
         /\ cpPc' = IF NeedsRules(LlmParsed(o)) THEN "rules" ELSE "finish"
    /\ UNCHANGED <<llm_client, cpContent, cpResult, cpClock>>

\* content_parser.py 292-294 (152-235)
rule_based_fallback ==
    /\ cpPc = "rules"
    /\ parsed_data' = parse_with_rules(cpContent)
    /\ cpEvents' = Append(cpEvents, [e |-> "rules", out |-> "", json |-> None])
    /\ cpPc' = "finish"
    /\ UNCHANGED <<llm_client, cpContent, cpResult, cpClock>>

Stamped_without_length(result, confidence, ts, content) ==
    [result EXCEPT !.confidence_score = confidence,
                   !.parsing_timestamp = IntVal(ts)]

\* content_parser.py 301-303: the metadata set on the converted record
Stamped(result, confidence, ts, content) ==
    [result EXCEPT !.confidence_score = confidence,
                   !.parsing_timestamp = IntVal(ts),
                   !.raw_content_length = IntVal(content.len)]

\* content_parser.py 296-306: validate, convert, stamp and return; an
\* exception of validate_parsed_data or _dict_to_parsed_info is not caught
parse_content_return ==
    /\ cpPc = "finish"
    /\ LET confidence == validate_parsed_data(parsed_data)              \* 297
           result     == dict_to_parsed_info(parsed_data)               \* 300
       IN  IF confidence = Raised \/ result = Raised
           THEN cpPc' = "raised" /\ cpResult' = Raised
           ELSE /\ cpPc' = "done"
                /\ cpResult' = Stamped(result, confidence, cpClock + 1, cpContent)
    /\ cpClock' = cpClock + 1
    /\ UNCHANGED <<llm_client, cpContent, parsed_data, cpEvents>>

\* json.dump (content_parser.py 378-379) and json.load of the file it wrote:
\* dict <-> object, list <-> array, str <-> string, None <-> null, int and
\* float <-> number (a float keeps its fraction), bool <-> true / false
JsonDump(x) ==
    LET RECURSIVE D(_)
        D(y) ==
            CASE y.t = "none"  -> [j |-> "null", v |-> ""]
              [] y.t = "str"   -> [j |-> "string", v |-> y.v]
              [] y.t = "int"   -> [j |-> "number", v |-> [int |-> y.v, frac |-> <<>>]]
              [] y.t = "ratio" -> [j |-> "number", v |-> [int |-> 0, frac |-> <<y.v>>]]
              [] y.t = "bool"  -> [j |-> IF y.v THEN "true" ELSE "false", v |-> ""]
              [] y.t = "arr"   -> [j |-> "array",
                                   v |-> [i \in 1..Len(y.v) |-> D(y.v[i])]]
              [] y.t = "obj"   -> [j |-> "object",
                                   v |-> [k \in DOMAIN y.v |-> D(y.v[k])]]
    IN  D(x)

JsonLoad(text) ==
    LET RECURSIVE L(_)
        L(y) ==
            CASE y.j = "null"    -> None
              [] y.j = "string"  -> Str(y.v)
              [] y.j = "number"  -> IF y.v.frac = <<>> THEN IntVal(y.v.int)
                                    ELSE [t |-> "ratio", v |-> y.v.frac[1]]
              [] y.j \in {"true", "false"} -> Bool(y.j = "true")
              [] y.j = "array"   -> Arr([i \in 1..Len(y.v) |-> L(y.v[i])])
              [] y.j = "object"  -> Obj([k \in DOMAIN y.v |-> L(y.v[k])])
    IN  L(text)

\* ParsedCompetitionInfo(): every field None
EmptyInfo == [a \in DataAttrs \cup MetadataAttrs |-> None]

\* the records parse_content returns for the parsed data and contents above
ParsedInfos ==
    {EmptyInfo}
    \cup { Stamped(dict_to_parsed_info(pd), validate_parsed_data(pd), 1, c) :
             pd \in {x \in ParsedObjects : /\ validate_parsed_data(x) # Raised
                                           /\ dict_to_parsed_info(x) # Raised},
             c \in {ContentOpen} }
    \cup { Stamped(dict_to_parsed_info(parse_with_rules(c)),
                   validate_parsed_data(parse_with_rules(c)), 1, c) :
             c \in ParserContents }

RoundTripIdle == [record |-> EmptyInfo, file |-> None, back |-> None, step |-> "idle"]

RoundTripInit ==
    rt \in [record : ParsedInfos, file : {None}, back : {None}, step : {"start"}]

\* content_parser.py 341-381: save_parsed_info writes the file
RoundTripSave ==
    /\ rt.step = "start"
    /\ rt' = [rt EXCEPT !.file = JsonDump(save_parsed_info(rt.record)),
                        !.step = "saved"]

\* content_parser.py 310-339: the file is read back and converted
RoundTripLoad ==
    /\ rt.step = "saved"
    /\ rt' = [rt EXCEPT !.back = dict_to_parsed_info(JsonLoad(rt.file)),
                        !.step = "loaded"]

---------------------------------------------------------------------------
(* run_workflow.main and WorkflowExecutor                                  *)

\* the files the stages write, under input/<name>/competition_info and
\* output/<name>
StageFiles ==
    {"scraped_content.txt", "scraping_metadata.json", "parsed_competition_info.json",
     "application.md"}

\* a file written by an earlier run
OldFile   == [t |-> "old", v |-> ""]
EmptyDisk == [f \in StageFiles |-> Absent]
Disks     == [StageFiles -> {Absent, OldFile}]

\* workflow_execution.py 71-97: what the user types: a URL with or without a
\* scheme and a confirmation, a refusal (sys.exit(0)), or the end of the input
\* (EOFError)
TypedUrls ==
    { <<"https", ":", "//", "example.org", "/comp">>,
      <<"example.org", "/comp">>,
      <<"https", ":", "//", "/comp">> }
UserInputs ==
    { [kind |-> "confirmed", typed |-> u] : u \in TypedUrls }
    \cup { [kind |-> k, typed |-> <<>>] : k \in {"cancelled", "eof"} }

\* workflow_execution.py 85-86: 'https://' is put before a URL without scheme
WithScheme(u) ==
    IF Len(u) >= 3 /\ u[1] \in {"http", "https"} /\ u[2] = ":" /\ u[3] = "//"
    THEN u ELSE <<"https", ":", "//">> \o u

\* workflow_execution.py 35-68: WorkflowExecutor() loads the configuration and
\* sets the logging up, or load_config calls sys.exit(1) (47, 50), or
\* setup_logging raises
ConstructorOutcomes == {"ok", "no_config", "raised"}

\* workflow_execution.py 107-108: output_dir.mkdir
MkdirOutcomes == {"ok", "raised"}

\* workflow_execution.py 118-139: both files are written, or the first open
\* raises, or the second open or json.dump raises
WriteOutcomes == {"ok", "content_fails", "metadata_fails"}

\* workflow_execution.py 164-176: the configuration lacks an LLM key (166-168
\* raise KeyError), or parse_content or save_to_competition_dir raises, or all
\* of them return
ParsingOutcomes == {"ok", "config_error", "parse_raised"}

\* workflow_execution.py 241-259: load_prompt_template raises (195), or the
\* completion call raises inside call_llm_for_application, or writing the
\* application raises, or nothing raises
GenerationOutcomes == {"ok", "llm_raised", "template_missing", "write_fails"}

NoPosts == [parsing |-> 0, generation |-> 0]

WorkflowState(disks) ==
    /\ wfPc = "boot"
    /\ wfEntry = "none"
    /\ target_url = <<>>
    /\ wfFiles \in disks
    /\ wfLog = <<>>
    /\ wfReturn = NotSet
    /\ wfContent = NotSet
    /\ wfDocs = {}
    /\ wfLlm = "none"
    /\ wfPosts = NoPosts
    /\ exit_code = NotSet

\* run_workflow.py 13-19: a process started on a disk that holds any of the
\* files of an earlier run
WorkflowInit == WorkflowState(Disks)

Started(stage)        == [stage |-> stage, ev |-> "start"]
Returned(stage, ok)   == [stage |-> stage, ev |-> IF ok THEN "true" ELSE "false"]
Escaped(stage)        == [stage |-> stage, ev |-> "raise"]

Gate_ignores_failure(ok, next) == next

\* workflow_execution.py 334-349: `if not self.execute_...: return False`
Gate(ok, next) == IF ok THEN next ELSE "returned"

OnException_reraise == "raise"

\* workflow_execution.py 144-146, 182-184, 263-265: `except Exception as e:`
\* logs and returns False
OnException == "false"

FilesOnFailure_cleanup(files) == [f \in DOMAIN files |-> Absent]

\* workflow_execution.py 113-115, 144-146, 157-159, 182-184, 263-265: a stage
\* that returns False removes and rewrites nothing
FilesOnFailure(files) == files

ExitCode_of_completion(success) == 0

\* run_workflow.py 24-29
ExitCode(success) == IF Truthy(success) THEN 0 ELSE 1

\* what a stage hands to its caller: "true", "false" or "raise"
StageResult(ok) == IF ok THEN "true" ELSE OnException

\* The stage leaves with result r. Called by execute_complete_workflow
\* (334-349), True leads to `next`, False to `return False`, and an exception
\* to the except clause of 356-359; called on its own, the stage returns.
StageEnd(stage, events, r, next) ==
    /\ wfLog' = wfLog \o events
                  \o <<IF r = "raise" THEN Escaped(stage) ELSE Returned(stage, r = "true")>>
    /\ IF wfEntry = "full"
       THEN /\ wfPc' = IF r = "raise" \/ next = "success" THEN "returned"  \* 354
                       ELSE Gate(r = "true", next)
            /\ wfReturn' = CASE r = "raise" -> Bool(FALSE)
                             [] Gate(r = "true", next) = "returned" -> Bool(FALSE)
                             [] next = "success" -> Bool(TRUE)             \* 354
                             [] OTHER -> wfReturn
       ELSE /\ wfPc' = "returned"
            /\ UNCHANGED wfReturn

\* run_workflow.py 19-21, 34-36: WorkflowExecutor()
main ==
    /\ wfPc = "boot"
    /\ \E c \in ConstructorOutcomes :
         CASE c = "ok" ->
                 /\ wfPc' = "idle"
                 /\ UNCHANGED exit_code
           [] c = "no_config" ->                          \* SystemExit(1)
                 /\ wfPc' = "exited"
                 /\ exit_code' = IntVal(1)
           [] OTHER ->                                    \* 34-36
                 /\ wfPc' = "crashed"
                 /\ exit_code' = IntVal(1)
    /\ UNCHANGED <<wfEntry, target_url, wfFiles, wfLog, wfReturn, wfContent, wfDocs,
                   wfLlm, wfPosts>>

\* run_workflow.py 22, workflow_execution.py 325-327
execute_complete_workflow ==
    /\ wfPc = "idle"
    /\ wfPc' = "inputs"
    /\ wfEntry' = "full"
    /\ UNCHANGED <<target_url, wfFiles, wfLog, wfReturn, wfContent, wfDocs, wfLlm, wfPosts,
                   exit_code>>

\* workflow_execution.py 329 (71-97), 356-359
get_user_inputs ==
    /\ wfPc = "inputs"
    /\ \E i \in UserInputs :
         CASE i.kind = "confirmed" ->
                 /\ target_url' = WithScheme(i.typed)
                 /\ wfPc' = "scraping"
                 /\ UNCHANGED <<wfReturn, exit_code>>
           [] i.kind = "cancelled" ->                       \* 93-95: SystemExit(0)
                 /\ wfPc' = "exited"
                 /\ exit_code' = IntVal(0)
                 /\ UNCHANGED <<target_url, wfReturn>>
           [] OTHER ->                                      \* 356-359
                 /\ wfPc' = "returned"
                 /\ wfReturn' = Bool(FALSE)
                 /\ UNCHANGED <<target_url, exit_code>>
    /\ UNCHANGED <<wfEntry, wfFiles, wfLog, wfContent, wfDocs, wfLlm, wfPosts>>

\* workflow_execution.py 99-110: the stage up to the with-block
execute_scraping ==
    /\ wfPc = "scraping"
    /\ \E m \in MkdirOutcomes :
         IF m = "ok"
         THEN /\ wfPc' = "scraper"
              /\ wfLog' = wfLog \o <<Started("scraping")>>
              /\ wfFiles' = wfFiles
              /\ UNCHANGED wfReturn
         ELSE /\ StageEnd("scraping", <<Started("scraping")>>, StageResult(FALSE),
                          "parsing")
              /\ wfFiles' = FilesOnFailure(wfFiles)
    /\ UNCHANGED <<wfEntry, target_url, wfContent, wfDocs, wfLlm, wfPosts, exit_code>>

\* workflow_execution.py 119: result.content or "No content extracted"
ContentOr(content) ==
    IF content.t = "text" /\ TextLen(content.v) > 0 THEN content
    ELSE Str("No content extracted")

\* workflow_execution.py 121-132: the metadata dictionary
MetadataOf(result) ==
    [t |-> "metadata",
     v |-> [url |-> result.url, success |-> result.success,
            scraping_method |-> result.scraping_method,
            error_message |-> result.error_message]]

Fetched_unchecked(result) == TRUE

\* workflow_execution.py 113: `if not result.success`
Fetched(result) == result.success

\* workflow_execution.py 110-146: the stage from the end of the with-block on
execute_scraping_return ==
    /\ wfPc = "scraper"
    /\ scope = "exited"
    /\ IF scPc = "raised" \/ "success" \notin DOMAIN scResult            \* 144-146
       THEN /\ StageEnd("scraping", <<>>, StageResult(FALSE), "parsing")
            /\ wfFiles' = FilesOnFailure(wfFiles)
       ELSE IF ~Fetched(scResult)                                        \* 113-115
       THEN /\ StageEnd("scraping", <<>>, "false", "parsing")
            /\ wfFiles' = FilesOnFailure(wfFiles)
       ELSE \E w \in WriteOutcomes :
              /\ StageEnd("scraping", <<>>, StageResult(w = "ok"), "parsing")
              /\ wfFiles' =
                   CASE w = "ok" ->
                          [wfFiles EXCEPT
                             !["scraped_content.txt"] = ContentOr(scResult.content),
                             !["scraping_metadata.json"] = MetadataOf(scResult)]
                     [] w = "metadata_fails" ->
                          [wfFiles EXCEPT
                             !["scraped_content.txt"] = ContentOr(scResult.content)]
                     [] OTHER -> wfFiles
    /\ UNCHANGED <<wfEntry, target_url, wfContent, wfDocs, wfLlm, wfPosts, exit_code>>

\* content_parser.py 383-390: the file save_to_competition_dir writes for the
\* record parsed from `content`
ParsedFile(content) == [t |-> "parsed", v |-> content]

ContentRead_from_result(files, result) ==
    IF "content" \in DOMAIN result THEN result.content
    ELSE files["scraped_content.txt"]

\* workflow_execution.py 161-162: the content is read from the file; the
\* ScrapingResult of the scraping stage is not in scope
ContentRead(files, result) == files["scraped_content.txt"]

\* monica_client.py 54: the default retry_attempts of MonicaClient.complete,
\* which MonicaAIClient.complete (content_parser.py 402) leaves in place;
\* workflow_execution.py 302: the retry_attempts of call_llm_for_application
DefaultRetryAttempts    == 3
GenerationRetryAttempts == 3

\* what the endpoint answers to the POSTs of one completion call: one answer
\* of each kind of outcome, per attempt
StageResponses ==
    { Http(200, Reply(Str(ContentA))), Http(200, NotJson), Http(404, NotJson),
      Http(503, NotJson), Exc("timeout") }
EndpointAnswers(ra) == [1..ra -> StageResponses]

CallPosts_one_more(ra, rs) ==
    LET RECURSIVE P(_)
        P(i) == IF i > ra + 1 THEN ra + 1
                ELSE IF i <= ra /\ AttemptOutcome(rs[i]) \in {"success", "terminal"} THEN i
                ELSE P(NextAttempt(i))
    IN  IF ra <= 0 THEN 0 ELSE P(1)

\* monica_client.py 106-152: the number of POSTs call_api makes when the
\* endpoint answers rs[1], rs[2], ..., and the content it returns
CallPosts(ra, rs) ==
    LET RECURSIVE P(_)
        P(i) == IF i > ra THEN ra
                ELSE IF AttemptOutcome(rs[i]) \in {"success", "terminal"} THEN i
                ELSE P(NextAttempt(i))
    IN  IF ra <= 0 THEN 0 ELSE P(1)

CallContent(ra, rs) ==
    LET n == CallPosts(ra, rs)
    IN  IF n >= 1 /\ AttemptOutcome(rs[n]) = "success"
        THEN ExtractContent(rs[n].body)
        ELSE None

\* workflow_execution.py 148-184
execute_parsing ==
    /\ wfPc = "parsing"
    /\ LET file == wfFiles["scraped_content.txt"]
       IN  IF file = Absent                                              \* 157-159
           THEN /\ StageEnd("parsing", <<Started("parsing")>>, "false", "generation")
                /\ wfFiles' = FilesOnFailure(wfFiles)
                /\ UNCHANGED <<wfContent, wfPosts>>
           ELSE \E o \in ParsingOutcomes, rs \in EndpointAnswers(DefaultRetryAttempts) :
                  /\ wfContent' = IF o = "config_error" THEN wfContent
                                  ELSE ContentRead(wfFiles, scResult)
                  /\ wfPosts' =                                          \* 174 (289, 132)
                       IF o = "config_error" THEN wfPosts
                       ELSE [wfPosts EXCEPT
                               !.parsing = @ + CallPosts(DefaultRetryAttempts, rs)]
                  /\ StageEnd("parsing", <<Started("parsing")>>, StageResult(o = "ok"),
                              "generation")
                  /\ wfFiles' =
                       IF o = "ok"
                       THEN [wfFiles EXCEPT
                               !["parsed_competition_info.json"] =
                                   ParsedFile(ContentRead(wfFiles, scResult))]
                       ELSE FilesOnFailure(wfFiles)
    /\ UNCHANGED <<wfEntry, target_url, wfDocs, wfLlm, exit_code>>

\* workflow_execution.py 197-211: the stage files load_reference_docs finds
StageDocs(files) ==
    {f \in {"parsed_competition_info.json", "scraped_content.txt"} : files[f] # Absent}

\* workflow_execution.py 282-323: what call_llm_for_application returns
ApplicationText(llm) ==
    [t |-> "application", v |-> IF llm = "raised" THEN "fallback" ELSE "generated"]

\* workflow_execution.py 235-265 (with 186-233, 282-323)
execute_application_generation ==
    /\ wfPc = "generation"
    /\ \E o \in GenerationOutcomes, rs \in EndpointAnswers(GenerationRetryAttempts) :
         LET called == o # "template_missing"
             llm    == IF CallContent(GenerationRetryAttempts, rs) = None  \* 298-304
                       THEN "raised" ELSE "returned"
             ok     == o \in {"ok", "llm_raised"}
         IN  /\ o = "llm_raised" => llm = "raised"
             /\ o = "ok" => llm = "returned"
             /\ wfDocs' = IF called THEN StageDocs(wfFiles) ELSE wfDocs
             /\ wfLlm' = IF called THEN llm ELSE wfLlm
             /\ wfPosts' =
                  IF called
                  THEN [wfPosts EXCEPT
                          !.generation = @ + CallPosts(GenerationRetryAttempts, rs)]
                  ELSE wfPosts
             /\ wfFiles' = IF ok
                           THEN [wfFiles EXCEPT !["application.md"] = ApplicationText(llm)]
                           ELSE FilesOnFailure(wfFiles)
             /\ StageEnd("generation", <<Started("generation")>>, StageResult(ok),
                         "success")
    /\ UNCHANGED <<wfEntry, target_url, wfContent, exit_code>>

\* run_workflow.py 22-29: main returns the exit code
main_return ==
    /\ wfPc = "returned"
    /\ wfEntry = "full"
    /\ exit_code = NotSet
    /\ exit_code' = IntVal(ExitCode(wfReturn))
    /\ UNCHANGED <<wfPc, wfEntry, target_url, wfFiles, wfLog, wfReturn, wfContent,
                   wfDocs, wfLlm, wfPosts>>

\* run_workflow.py 31-33: KeyboardInterrupt while the constructor or the
\* workflow runs; a with-block that is open is left through __exit__
KeyboardInterrupt ==
    /\ wfPc \in {"boot", "idle", "inputs", "scraping", "scraper", "parsing",
                 "generation"}
    /\ wfEntry \in {"none", "full"}
    /\ wfPc' = "interrupted"
    /\ exit_code' = IntVal(130)
    /\ IF scope = "with"
       THEN /\ \E q \in QuitOutcomes : ExitCalls(q)
            /\ scope' = "exited"
            /\ UNCHANGED <<max_retries, scPc, url, force_dynamic, sAttempt,
                           static_result, dynamic_result, scResult, scEvents, scCalls,
                           scClock, soup, sOutcome>>
       ELSE UNCHANGED scVars
    /\ UNCHANGED <<wfEntry, target_url, wfFiles, wfLog, wfReturn, wfContent, wfDocs,
                   wfLlm, wfPosts>>

\* execute_parsing or execute_application_generation called on its own, on
\* the files an earlier run left
call_stage ==
    /\ wfPc = "idle"
    /\ \E stage \in {"parsing", "generation"} :
         /\ wfPc' = stage
         /\ wfEntry' = stage
    /\ UNCHANGED <<target_url, wfFiles, wfLog, wfReturn, wfContent, wfDocs, wfLlm, wfPosts,
                   exit_code>>

\* web_scraper.py 470: the contents _is_content_sufficient is applied to.
\* Pad(k, s) is s after k leading blanks.
Pad(k, s) == [i \in 1..k |-> " "] \o s

HeadTwo   == <<"A", "p", "p", "l", "y", " ", "b", "y", " ", "t", "h", "e", " ", "d",
               "e", "a", "d", "l", "i", "n", "e">>
HeadApps  == <<"A", "P", "P", "L", "I", "C", "A", "T", "I", "O", "N", ":", " ", "a",
               "p", "p", "l", "y", ",", " ", "P", "r", "i", "z", "e">>
HeadParts == <<"P", "r", "i", "z", "e", "s", " ", "f", "o", "r", " ", "s", "t", "a",
               "r", "t", "u", "p", "s", ",", " ", "s", "u", "b", "m", "i", "t", "t",
               "e", "d">>

SufficientHeads == {HeadRich, HeadShort, HeadNews, HeadTwo, HeadApps, HeadParts}
SufficientPads  == {0, 3}
SufficientFills == {0, 450, 460, 463, 500, 563, 600}

SufficientContents ==
    {None, Text(<<>>, 0)}
    \cup { Text(Pad(k, h), f) :
             k \in SufficientPads, h \in SufficientHeads, f \in SufficientFills }

SufficientIdle == [content |-> None, result |-> FALSE, applied |-> FALSE]

SufficientInit ==
    suf \in [content : SufficientContents, result : {FALSE}, applied : {FALSE}]

\* web_scraper.py 470-495: one call of _is_content_sufficient
SufficientApply ==
    /\ ~suf.applied
    /\ suf' = [suf EXCEPT !.result = is_content_sufficient(suf.content),
                           !.applied = TRUE]

ValidateIdle == [data |-> None, result |-> None, applied |-> FALSE]

ValidateInit ==
    val \in [data : ParsedObjects \cup NonObjects, result : {None}, applied : {FALSE}]

\* content_parser.py 237-274: one call of validate_parsed_data
ValidateApply ==
    /\ ~val.applied
    /\ val' = [val EXCEPT !.result = validate_parsed_data(val.data), !.applied = TRUE]

\* monica_client.py 106, 146: successive attempts of one call ask for their delay
BackoffInit ==
    bo \in [n : {0}, base : 0..MaxBase, max : MaxDelays, delay : {0}, prev : {0},
            applied : {FALSE}]

BackoffApply ==
    /\ bo.n < MaxAttemptIdx \/ ~bo.applied
    /\ bo' = [bo EXCEPT !.n = IF bo.applied THEN bo.n + 1 ELSE bo.n,
                        !.prev = bo.delay,
                        !.delay = calculate_backoff_delay(
                                     IF bo.applied THEN bo.n + 1 ELSE bo.n,
                                     bo.base, bo.max),
                        !.applied = TRUE]

InitBackoff ==
    /\ BackoffInit
    /\ ApiState({0})
    /\ ScraperState({DefaultMaxRetries})
    /\ suf = SufficientIdle
    /\ val = ValidateIdle
    /\ ParserState({FALSE})
    /\ rt = RoundTripIdle
    /\ pr = RulesIdle
    /\ WorkflowState({EmptyDisk})

NextBackoff ==
    BackoffApply /\ UNCHANGED outsideBackoff

SpecBackoff == InitBackoff /\ [][NextBackoff]_vars

call_api_step        == call_api /\ UNCHANGED outsideApi
complete_step        == complete /\ UNCHANGED outsideApi
Attempt_step         == Attempt /\ UNCHANGED outsideApi
Exhausted_step       == Exhausted /\ UNCHANGED outsideApi
complete_return_step == complete_return /\ UNCHANGED outsideApi

NextApi ==
    \/ call_api_step
    \/ complete_step
    \/ Attempt_step
    \/ Exhausted_step
    \/ complete_return_step

BackoffIdle == [n |-> 0, base |-> 0, max |-> 0, delay |-> 0, prev |-> 0, applied |-> FALSE]

InitApi ==
    /\ bo = BackoffIdle
    /\ ApiInit
    /\ ScraperState({DefaultMaxRetries})
    /\ suf = SufficientIdle
    /\ val = ValidateIdle
    /\ ParserState({FALSE})
    /\ rt = RoundTripIdle
    /\ pr = RulesIdle
    /\ WorkflowState({EmptyDisk})

SpecApi == InitApi /\ [][NextApi]_vars

\* call_api and complete run to their end once called: the loop body blocks
\* only in requests.post (timeout=60) and in time.sleep(backoff_delay), and
\* both return; nothing obliges a caller to make a call
FairApi ==
    /\ WF_vars(Attempt_step)
    /\ WF_vars(Exhausted_step)
    /\ WF_vars(complete_return_step)

InitApiLive ==
    /\ bo = BackoffIdle
    /\ ApiState({0})
    /\ ScraperState({DefaultMaxRetries})
    /\ suf = SufficientIdle
    /\ val = ValidateIdle
    /\ ParserState({FALSE})
    /\ rt = RoundTripIdle
    /\ pr = RulesIdle
    /\ WorkflowState({EmptyDisk})

SpecApiLive == InitApiLive /\ [][NextApi]_vars /\ FairApi

InitScrape ==
    /\ bo = BackoffIdle
    /\ ApiState({0})
    /\ ScraperInit
    /\ suf = SufficientIdle
    /\ val = ValidateIdle
    /\ ParserState({FALSE})
    /\ rt = RoundTripIdle
    /\ pr = RulesIdle
    /\ WorkflowState({EmptyDisk})

NextScrape ==
    \/ scrape_url /\ UNCHANGED outsideScrape
    \/ StaticAttempt /\ UNCHANGED outsideScrape
    \/ StaticExit /\ UNCHANGED outsideScrape
    \/ DynamicFetch /\ UNCHANGED outsideScrape
    \/ close /\ UNCHANGED outsideScrape
    \/ enter /\ UNCHANGED outsideScrape
    \/ exit /\ UNCHANGED outsideScrape

SpecScrape == InitScrape /\ [][NextScrape]_vars

InitSufficient ==
    /\ bo = BackoffIdle
    /\ ApiState({0})
    /\ ScraperState({DefaultMaxRetries})
    /\ SufficientInit
    /\ val = ValidateIdle
    /\ ParserState({FALSE})
    /\ rt = RoundTripIdle
    /\ pr = RulesIdle
    /\ WorkflowState({EmptyDisk})

NextSufficient ==
    SufficientApply /\ UNCHANGED outsideSufficient

SpecSufficient == InitSufficient /\ [][NextSufficient]_vars

InitValidate ==
    /\ bo = BackoffIdle
    /\ ApiState({0})
    /\ ScraperState({DefaultMaxRetries})
    /\ suf = SufficientIdle
    /\ ValidateInit
    /\ ParserState({FALSE})
    /\ rt = RoundTripIdle
    /\ pr = RulesIdle
    /\ WorkflowState({EmptyDisk})

NextValidate ==
    ValidateApply /\ UNCHANGED outsideValidate

SpecValidate == InitValidate /\ [][NextValidate]_vars

InitParse ==
    /\ bo = BackoffIdle
    /\ ApiState({0})
    /\ ScraperState({DefaultMaxRetries})
    /\ suf = SufficientIdle
    /\ val = ValidateIdle
    /\ ParserInit
    /\ rt = RoundTripIdle
    /\ pr = RulesIdle
    /\ WorkflowState({EmptyDisk})

NextParse ==
    \/ parse_content /\ UNCHANGED outsideParse
    \/ parse_with_llm /\ UNCHANGED outsideParse
    \/ rule_based_fallback /\ UNCHANGED outsideParse
    \/ parse_content_return /\ UNCHANGED outsideParse

SpecParse == InitParse /\ [][NextParse]_vars

InitRoundTrip ==
    /\ bo = BackoffIdle
    /\ ApiState({0})
    /\ ScraperState({DefaultMaxRetries})
    /\ suf = SufficientIdle
    /\ val = ValidateIdle
    /\ ParserState({FALSE})
    /\ RoundTripInit
    /\ pr = RulesIdle
    /\ WorkflowState({EmptyDisk})

NextRoundTrip ==
    \/ RoundTripSave /\ UNCHANGED outsideRoundTrip
    \/ RoundTripLoad /\ UNCHANGED outsideRoundTrip

SpecRoundTrip == InitRoundTrip /\ [][NextRoundTrip]_vars

InitRules ==
    /\ bo = BackoffIdle
    /\ ApiState({0})
    /\ ScraperState({DefaultMaxRetries})
    /\ suf = SufficientIdle
    /\ val = ValidateIdle
    /\ ParserState({FALSE})
    /\ rt = RoundTripIdle
    /\ RulesInit
    /\ WorkflowState({EmptyDisk})

NextRules ==
    \/ RulesApply /\ UNCHANGED outsideRules
    \/ RulesValidate /\ UNCHANGED outsideRules

SpecRules == InitRules /\ [][NextRules]_vars

InitWorkflow ==
    /\ bo = BackoffIdle
    /\ ApiState({0})
    /\ ScraperState(0..MaxRetries)
    /\ suf = SufficientIdle
    /\ val = ValidateIdle
    /\ ParserState({FALSE})
    /\ rt = RoundTripIdle
    /\ pr = RulesIdle
    /\ WorkflowInit

\* the one scrape_url call of the with-block (workflow_execution.py 110-111)
InScraper(step) == wfPc = "scraper" /\ step /\ UNCHANGED outsideScrape

\* workflow_execution.py 325-359: the steps of a run of
\* execute_complete_workflow, from the prompts to its return
RunStep ==
    \/ get_user_inputs /\ UNCHANGED outsideWorkflow
    \/ execute_scraping /\ UNCHANGED outsideWorkflow
    \/ InScraper(enter)
    \/ InScraper(scope = "with" /\ scCalls = 0 /\ scrape_url_call(target_url, FALSE))
    \/ InScraper(StaticAttempt)
    \/ InScraper(StaticExit)
    \/ InScraper(DynamicFetch)
    \/ InScraper(scCalls = 1 /\ exit)
    \/ execute_scraping_return /\ UNCHANGED outsideWorkflow
    \/ execute_parsing /\ UNCHANGED outsideWorkflow
    \/ execute_application_generation /\ UNCHANGED outsideWorkflow

NextWorkflow ==
    \/ main /\ UNCHANGED outsideWorkflow
    \/ execute_complete_workflow /\ UNCHANGED outsideWorkflow
    \/ RunStep
    \/ main_return /\ UNCHANGED outsideWorkflow
    \/ KeyboardInterrupt /\ UNCHANGED outsideStages

SpecWorkflow == InitWorkflow /\ [][NextWorkflow]_vars

\* The run is one sequential thread: each step of it ends, because every
\* blocking call it makes is bounded (the GET and the POST carry a timeout, the
\* browser waits are WebDriverWait with a timeout, the sleeps are finite) and
\* the user answers the prompts of get_user_inputs. Nothing obliges main to
\* start a run, nor a KeyboardInterrupt to arrive.
FairWorkflow == WF_vars(RunStep)

SpecWorkflowLive == InitWorkflow /\ [][NextWorkflow]_vars /\ FairWorkflow

InitResume == InitWorkflow

NextResume ==
    \/ NextWorkflow
    \/ call_stage /\ UNCHANGED outsideWorkflow

SpecResume == InitResume /\ [][NextResume]_vars

---------------------------------------------------------------------------
(* Observations over one call of call_api                                  *)

Posts  == SelectSeq(apiEvents, LAMBDA ev : ev.e = "post")
Sleeps == SelectSeq(apiEvents, LAMBDA ev : ev.e = "sleep")

\* number of POSTs among the first i events
PostsUpTo(i) == Cardinality({j \in 1..i : apiEvents[j].e = "post"})

Pow2(n) ==
    LET RECURSIVE P(_)
        P(k) == IF k = 0 THEN 1 ELSE 2 * P(k - 1)
    IN  P(n)

\* min(base * 2^n, max), written out
ExpectedDelay(n, base, max) ==
    IF base * Pow2(n) <= max THEN base * Pow2(n) ELSE max

\* the transient failures of an attempt: timeout, connection error, 429, >= 500
IsTransient(r) ==
    \/ r.kind \in {"timeout", "connection_error"}
    \/ r.kind = "http" /\ (r.status = 429 \/ r.status >= 500)

\* HTTP 200 whose JSON has a non-empty message content at the first choice
IsGood200(r) ==
    /\ r.kind = "http"
    /\ r.status = 200
    /\ r.body \in {Reply(Str(ContentA)), Reply(Str(ContentB))}

\* HTTP 200 whose JSON is well formed but has no or an empty content
IsMalformed200(r) ==
    /\ r.kind = "http"
    /\ r.status = 200
    /\ r.body \in { Reply(Str("")), Reply(None),
                    Obj([choices |-> Arr(<<Obj([message |-> Obj([role |-> Str("assistant")])])>>)]),
                    Obj([error |-> Str("overloaded")]) }

\* HTTP 4xx other than 429
IsTerminal4xx(r) ==
    r.kind = "http" /\ 400 <= r.status /\ r.status < 500 /\ r.status # 429

\* the events of a call are POST, sleep, POST, sleep, ... with the i-th sleep
\* (0-indexed) lasting min(retry_delay * 2^i, 300)
AlternatesWithBackoff(k) ==
    /\ Len(apiEvents) = 2 * k - 1
    /\ \A i \in 1..k : apiEvents[2 * i - 1].e = "post"
    /\ \A i \in 1..(k - 1) :
          /\ apiEvents[2 * i].e = "sleep"
          /\ apiEvents[2 * i].d = ExpectedDelay(i - 1, retry_delay, 300)

\* C1: when the first k-1 attempts (1 <= k <= retry_attempts) each end in a
\* transient failure and attempt k answers 200 with non-empty content, the call
\* has returned after exactly k POSTs and k-1 sleeps, the i-th sleep lasting
\* min(retry_delay * 2^i, 300), with the content of the k-th response; a 429
\* followed by a 200-with-content under retry_attempts = 3 gives exactly one
\* sleep and the second response's content.
C1_RetryThenSuccess ==
    /\ \A k \in 1..Len(Posts) :
          ( /\ k <= retry_attempts
            /\ \A i \in 1..(k - 1) : IsTransient(Posts[i].r)
            /\ IsGood200(Posts[k].r) )
          => /\ apiPc = "returned"
             /\ Len(Posts) = k
             /\ Len(Sleeps) = k - 1
             /\ AlternatesWithBackoff(k)
             /\ apiContent = Posts[k].r.body.v.choices.v[1].v.message.v.content
    /\ ( /\ retry_attempts = 3
         /\ Len(Posts) >= 2
         /\ Posts[1].r.kind = "http" /\ Posts[1].r.status = 429
         /\ IsGood200(Posts[2].r) )
       => /\ Len(Sleeps) = 1
          /\ apiPc = "returned"
          /\ apiContent = Posts[2].r.body.v.choices.v[1].v.message.v.content

C1_Witness ==
    /\ apiPc = "returned"
    /\ retry_attempts = 3
    /\ retry_delay = 5
    /\ Len(Posts) = 2
    /\ Posts[1].r = Http(429, NotJson)
    /\ Posts[2].r = Http(200, Reply(Str(ContentB)))
    /\ apiContent = Str(ContentB)

\* C2: an HTTP 4xx other than 429, on whichever attempt, is the last event of
\* the call: call_api has returned None after it, with no later POST or sleep;
\* on the first attempt the call is exactly one POST and no sleep.
C2_Terminal4xxStops ==
    \A i \in 1..Len(apiEvents) :
        (apiEvents[i].e = "post" /\ IsTerminal4xx(apiEvents[i].r))
        => /\ i = Len(apiEvents)
           /\ apiPc = "returned"
           /\ apiContent = None
           /\ (i = 1 => Len(Posts) = 1 /\ Len(Sleeps) = 0)

C2_Witness ==
    /\ apiPc = "returned"
    /\ retry_attempts = 3
    /\ apiEvents = <<PostEvent(Http(404, NotJson))>>
    /\ apiContent = None

\* C3: when all retry_attempts >= 1 attempts end in a retryable failure there
\* are exactly retry_attempts POSTs and retry_attempts - 1 sleeps, the last
\* event is a POST (no sleep after the final attempt), and the call returns
\* None with the elapsed wall-clock time of its POSTs and sleeps.
C3_ExhaustedRetries ==
    ( /\ retry_attempts >= 1
      /\ Len(Posts) = retry_attempts
      /\ \A i \in 1..Len(Posts) :
            IsTransient(Posts[i].r) \/ IsMalformed200(Posts[i].r) )
    => /\ Len(Sleeps) = retry_attempts - 1
       /\ apiEvents[Len(apiEvents)].e = "post"
       /\ AlternatesWithBackoff(retry_attempts)
       /\ apiPc \in {"loop", "returned"}
       /\ apiPc = "loop" => attempt = retry_attempts
       /\ apiPc = "returned" =>
             /\ apiContent = None
             /\ apiElapsed = now - start_time
             /\ apiElapsed = SumDelays(Sleeps)
                             + SumDelays([i \in 1..Len(Posts) |->
                                            [d |-> PostSeconds(Posts[i].r)]])

C3_Witness ==
    /\ apiPc = "returned"
    /\ retry_attempts = 3
    /\ retry_delay = 200
    /\ Len(Posts) = 3
    /\ \A i \in 1..3 : IsTransient(Posts[i].r)
    /\ Len(Sleeps) = 2
    /\ Sleeps[2].d = 300
    /\ apiContent = None
    /\ start_time = 7

\* C5: complete never returns None or an empty string: it returns call_api's
\* non-empty content when there is one and raises when call_api returned None.
C5_CompleteFailsLoudly ==
    completeOut.state \in {"returned", "raised"}
    => /\ apiPc = "returned"
       /\ IF apiContent = None
          THEN completeOut.state = "raised"
          ELSE /\ completeOut.state = "returned"
               /\ completeOut.value = apiContent
               /\ completeOut.value.t = "str"
               /\ completeOut.value.v # ""
       /\ completeOut.state = "raised" =>
             \/ Len(Posts) = (IF retry_attempts > 0 THEN retry_attempts ELSE 0)
             \/ IsTerminal4xx(Posts[Len(Posts)].r)

C5_Witness ==
    /\ completeOut.state = "raised"
    /\ retry_attempts = 2
    /\ Len(Posts) = 2
    /\ IsMalformed200(Posts[2].r)

\* C6: call_api returns content only from an attempt that got HTTP 200 with a
\* non-empty message content; an HTTP 200 with missing or empty content is not
\* a success: it uses up one attempt and is followed by the backoff sleep and
\* the next attempt exactly as a transient failure is.
C6_Malformed200IsRetried ==
    /\ (apiPc = "returned" /\ apiContent # None)
       => /\ Len(Posts) >= 1
          /\ IsGood200(Posts[Len(Posts)].r)
          /\ apiContent = Posts[Len(Posts)].r.body.v.choices.v[1].v.message.v.content
    /\ \A i \in 1..Len(apiEvents) :
          (apiEvents[i].e = "post" /\ IsMalformed200(apiEvents[i].r))
          => LET p == PostsUpTo(i)
             IN  /\ apiPc = "loop" /\ i >= Len(apiEvents) - 1 => attempt = p
                 /\ IF p < retry_attempts
                    THEN /\ i < Len(apiEvents)
                         /\ apiEvents[i + 1] =
                               SleepEvent(ExpectedDelay(p - 1, retry_delay, 300))
                         /\ (i + 1 < Len(apiEvents) => apiEvents[i + 2].e = "post")
                    ELSE /\ i = Len(apiEvents)
                         /\ apiPc = "returned" => apiContent = None

C6_Witness ==
    /\ retry_attempts = 3
    /\ retry_delay = 5
    /\ Len(apiEvents) = 3
    /\ IsMalformed200(apiEvents[1].r)
    /\ apiEvents[1].r.body = Reply(Str(""))
    /\ apiEvents[2] = SleepEvent(5)
    /\ IsGood200(apiEvents[3].r)
    /\ apiPc = "returned"

\* C4: calculate_backoff_delay(n, base, max) is min(base * 2^n, max) for n >= 0
\* and base >= 0, is non-decreasing in n, never exceeds max, and for base 5 and
\* max 300 gives 5, 10, 20, 40, 80, 160, 300 for attempts 0..6.
C4_BackoffDelay ==
    /\ bo.applied =>
          /\ bo.delay = ExpectedDelay(bo.n, bo.base, bo.max)
          /\ bo.delay <= bo.max
          /\ bo.n > 0 => bo.prev <= bo.delay
          /\ (bo.base = 5 /\ bo.max = 300 /\ bo.n <= 6) =>
                bo.delay = <<5, 10, 20, 40, 80, 160, 300>>[bo.n + 1]

C4_Witness ==
    /\ bo.applied
    /\ bo.base = 5
    /\ bo.max = 300
    /\ bo.n = 6
    /\ bo.delay = 300
    /\ bo.prev = 160

---------------------------------------------------------------------------
(* Observations over one call of scrape_url                                *)

CallEnded == scCalls > 0 /\ scPc \in {"done", "raised"}

GetAttempted     == \E i \in 1..Len(scEvents) : scEvents[i] = "get"
DynamicAttempted == \E i \in 1..Len(scEvents) : scEvents[i] \in {"chrome_start", "navigate"}

ResultFields ==
    {"url", "success", "content", "title", "meta_description", "links", "images",
     "error_message", "scraping_method", "timestamp"}

\* a ScrapingResult whose fields have the declared types
WellFormed(r) ==
    /\ DOMAIN r = ResultFields
    /\ r.url = url
    /\ r.success \in BOOLEAN
    /\ r.content.t \in {"none", "text"}
    /\ r.title.t \in {"none", "str"}
    /\ r.meta_description.t \in {"none", "str"}
    /\ r.links.t \in {"none", "arr"}
    /\ r.images.t \in {"none", "arr"}
    /\ r.error_message.t \in {"none", "msg"}
    /\ r.scraping_method.t \in {"none", "str"}
    /\ r.timestamp.t = "int"

\* the URLs of the model that lack a scheme or a host
LacksSchemeOrHost(u) ==
    u \in { <<"example.org", "/comp">>, <<"https", ":", "//", "/comp">>,
            <<"//", "example.org", "/comp">>, <<>> }

StaticUsable ==
    /\ static_result \notin {None, NotSet}
    /\ static_result.success
    /\ is_content_sufficient(static_result.content)

\* C7: scrape_url never raises and every call ends in a well-formed
\* ScrapingResult, for every URL, force_dynamic, max_retries (0 included) and
\* every failure of the static GET and of the browser.
C7_NeverRaises ==
    /\ scPc # "raised"
    /\ scPc = "done" => WellFormed(scResult)

\* C8: for a valid URL with force_dynamic false scrape_url returns the static
\* result when it succeeded with sufficient content, otherwise the dynamic
\* result when the dynamic fetch succeeded, otherwise the static result with
\* the static and dynamic error messages concatenated.
C8_Orchestration ==
    (CallEnded /\ ~LacksSchemeOrHost(url) /\ ~force_dynamic)
    => /\ scPc = "done"
       /\ IF StaticUsable
          THEN scResult = static_result
          ELSE /\ dynamic_result # NotSet
               /\ IF dynamic_result.success
                  THEN scResult = dynamic_result
                  ELSE scResult =
                         [static_result EXCEPT !.error_message =
                            Msg(<<"Both static and dynamic scraping failed. Static: ">>
                                \o Fmt(static_result.error_message)
                                \o <<", Dynamic: ">>
                                \o Fmt(dynamic_result.error_message))]

\* C9: in a scrape_url call on a valid URL the browser fetch is attempted iff
\* force_dynamic is set or the static result failed or is insufficient, and the
\* static GET is attempted iff force_dynamic is false.
C9_WhichFetchRuns ==
    (CallEnded /\ ~LacksSchemeOrHost(url))
    => /\ GetAttempted <=> ~force_dynamic
       /\ DynamicAttempted <=> (force_dynamic \/ ~StaticUsable)
       /\ (~force_dynamic /\ StaticUsable)
             => scPc = "done" /\ scResult.scraping_method = Str("static")

\* C10: scrape_url on a URL without a scheme or without a host returns the
\* failure outcome 'Invalid URL format' with no HTTP GET and no browser session
\* created or used, whether or not force_dynamic is set.
C10_InvalidUrlFailsFast ==
    /\ scPc \in {"static", "dynamic"} => ~LacksSchemeOrHost(url)
    /\ (CallEnded /\ LacksSchemeOrHost(url))
       => /\ scPc = "done"
          /\ WellFormed(scResult)
          /\ scResult.success = FALSE
          /\ scResult.error_message = Msg(<<"Invalid URL format">>)
          /\ scEvents = <<>>
          /\ static_result = NotSet
          /\ dynamic_result = NotSet

C10_Witness ==
    /\ scPc = "done"
    /\ url = <<"example.org", "/comp">>
    /\ force_dynamic
    /\ scResult.success = FALSE
    /\ scResult.error_message = Msg(<<"Invalid URL format">>)
    /\ scEvents = <<>>

---------------------------------------------------------------------------
(* Observations over one call of _is_content_sufficient                    *)

Keyword(w) == CHOOSE k \in 1..Len(competition_keywords) : competition_keywords[k] = w

KwApply    == Keyword(<<"a", "p", "p", "l", "y">>)
KwDeadline == Keyword(<<"d", "e", "a", "d", "l", "i", "n", "e">>)
KwPrize    == Keyword(<<"p", "r", "i", "z", "e">>)

\* keyword number k occurs in the text, in any letter case
Occurs(x, k) == Contains(Lower(x.head), competition_keywords[k])

ThreeKeywordsOccur(x) ==
    \E a, b, c \in 1..Len(competition_keywords) :
        a < b /\ b < c /\ Occurs(x, a) /\ Occurs(x, b) /\ Occurs(x, c)

NoKeywordOccurs(x) == \A k \in 1..Len(competition_keywords) : ~Occurs(x, k)

IsText(c) == c.t = "text"

\* C11 as stated: _is_content_sufficient(content) is true iff the content has
\* at least 500 characters and at least 3 distinct keywords occur in it in
\* any letter case; a 600-character string with 'deadline', 'apply' and
\* 'prize' is sufficient; a string without any keyword is insufficient.
C11_SufficientByLength ==
    suf.applied =>
        LET c == suf.content IN
        /\ suf.result <=> /\ IsText(c)
                          /\ TextLen(c.v) >= MinContentLength
                          /\ ThreeKeywordsOccur(c.v)
        /\ ( /\ IsText(c)
             /\ TextLen(c.v) = 600
             /\ Occurs(c.v, KwDeadline) /\ Occurs(c.v, KwApply) /\ Occurs(c.v, KwPrize) )
           => suf.result
        /\ (IsText(c) /\ NoKeywordOccurs(c.v)) => ~suf.result

\* C11 amended: the length that is compared with 500 is the length of the
\* content without its leading and trailing whitespace; the 600-character
\* example is sufficient when it neither starts nor ends with whitespace.
C11_SufficientByStrippedLength ==
    suf.applied =>
        LET c == suf.content IN
        /\ suf.result <=> /\ IsText(c)
                          /\ StrippedLen(c.v) >= MinContentLength
                          /\ ThreeKeywordsOccur(c.v)
        /\ ( /\ IsText(c)
             /\ TextLen(c.v) = 600
             /\ StrippedLen(c.v) = 600
             /\ Occurs(c.v, KwDeadline) /\ Occurs(c.v, KwApply) /\ Occurs(c.v, KwPrize) )
           => suf.result
        /\ (IsText(c) /\ NoKeywordOccurs(c.v)) => ~suf.result

\* 500 characters with three keywords, 497 of them after the leading blanks
C11_Witness ==
    /\ suf.applied
    /\ suf.content = Text(Pad(3, HeadRich), 460)
    /\ TextLen(suf.content.v) = MinContentLength
    /\ ThreeKeywordsOccur(suf.content.v)
    /\ ~suf.result

---------------------------------------------------------------------------
(* Links and images of a returned ScrapingResult                           *)

\* the page the returned record was built from
SourcePage ==
    IF scResult.scraping_method = Str("dynamic") THEN soup.dynamic ELSE soup.static

Count(x) == IF x.t = "arr" THEN Len(x.v) ELSE 0

\* every <a href> / <img src> element of the page, in document order
AllJoined(base, s) == [i \in 1..Len(s) |-> urljoin(base, s[i].ref)]

\* C12: every outcome returned by scrape_url has at most 50 links and at most
\* 20 images, and they are the first 50 links and the first 20 images of the
\* page in document order.
C12_FirstLinksOfPage ==
    (CallEnded /\ scPc = "done") =>
        /\ Count(scResult.links) <= MaxLinks
        /\ Count(scResult.images) <= MaxImages
        /\ scResult.success =>
              /\ scResult.links =
                   Arr(FirstN(AllJoined(url, SourcePage.links), MaxLinks))
              /\ scResult.images =
                   Arr(FirstN(AllJoined(url, SourcePage.images), MaxImages))

---------------------------------------------------------------------------
(* Browser sessions of one WebScraper instance                             *)

\* the sessions started by this instance that still run
LiveSessions == {i \in 1..Len(sessions) : sessions[i] = "live"}

DynamicFetchStep == scPc = "dynamic" /\ scPc' = "done"

\* C13: at most one live browser session at any time; none before the first
\* dynamic fetch; the first dynamic fetch creates one; a later dynamic fetch
\* reuses the live session and creates no other.
C13_OneLiveSession ==
    /\ [](Cardinality(LiveSessions) <= 1)
    /\ []((scCalls <= 1 /\ scPc \in {"idle", "static", "dynamic"}) => sessions = <<>>)
    /\ [][DynamicFetchStep =>
            /\ sessions = <<>> => (Len(sessions') = 1 /\ driver' = 1)
            /\ (driver # 0 /\ sessions[driver] = "live")
                  => (driver' = driver /\ Len(sessions') = Len(sessions))]_vars

---------------------------------------------------------------------------
(* Release of the browser session and of the HTTP session                  *)

\* C14: after close() returns the instance holds no browser session and its
\* HTTP session is closed, also when driver.quit() raised; when the instance
\* is used in a with-block, leaving the block has called close(), after a
\* body that completed and after a body that raised.
C14_CloseReleases ==
    /\ scLast = "close" => (driver = 0 /\ http_closed)
    /\ scope = "exited" => (scLast = "close" /\ driver = 0 /\ http_closed)

\* a with-block whose body raised, left with a browser whose quit() raised
C14_Witness ==
    /\ scope = "exited"
    /\ scPc = "raised"
    /\ scLast = "close"
    /\ driver = 0
    /\ http_closed
    /\ \E i \in 1..Len(sessions) : sessions[i] = "quit_failed"

---------------------------------------------------------------------------
(* Observations over one call of validate_parsed_data                      *)

HasSection(pd, s) == pd.t = "obj" /\ s \in DOMAIN pd.v

\* field f of section s is present and truthy (neither null nor empty)
Found(pd, s, f) ==
    /\ HasSection(pd, s)
    /\ pd.v[s].t = "obj"
    /\ f \in DOMAIN pd.v[s].v
    /\ Truthy(pd.v[s].v[f])

W(cond, weight) == IF cond THEN weight ELSE 0

\* sum of the weights of the weighted fields that are present and truthy
FoundWeight(pd) ==
    W(Found(pd, "competition_basic_info", "name"), 15)
    + W(Found(pd, "competition_basic_info", "organizer"), 10)
    + W(Found(pd, "competition_basic_info", "application_status"), 15)
    + W(Found(pd, "competition_basic_info", "deadline"), 20)
    + W(Found(pd, "benefits_and_prizes", "prize_fund"), 15)
    + W(Found(pd, "benefits_and_prizes", "benefits"), 10)
    + W(Found(pd, "target_participants", "criteria"), 10)
    + W(Found(pd, "competition_focus", "stage_preference"), 5)

\* sum of the weights of all weighted fields of the weighted sections present
PresentWeight(pd) ==
    W(HasSection(pd, "competition_basic_info"), 15 + 10 + 15 + 20)
    + W(HasSection(pd, "benefits_and_prizes"), 15 + 10)
    + W(HasSection(pd, "target_participants"), 10)
    + W(HasSection(pd, "competition_focus"), 5)

\* the score r equals a / b
RatioIs(r, a, b) == r.t = "ratio" /\ r.v.num * b = a * r.v.den

OnlyName == Obj([competition_basic_info |-> Obj([name |-> Str("X")])])

C17_ConfidenceFormula ==
    (val.applied /\ val.result # Raised) =>
        LET pd == val.data
            r  == val.result
        IN  /\ r.t = "ratio"
            /\ r.v.den > 0 /\ 0 <= r.v.num /\ r.v.num <= r.v.den
            /\ PresentWeight(pd) > 0 => RatioIs(r, FoundWeight(pd), PresentWeight(pd))
            /\ PresentWeight(pd) = 0 => RatioIs(r, 0, 1)

\* name and deadline found, organizer empty, application_status null, prize
\* fund found, benefits empty: (15 + 20 + 15) / (60 + 25)
C17_Witness ==
    /\ val.applied
    /\ val.data = Obj([competition_basic_info |->
                          Obj([name |-> Str("X"), organizer |-> Str(""),
                               application_status |-> None, deadline |-> Str("1 May")]),
                       benefits_and_prizes |->
                          Obj([prize_fund |-> Str("5,000"), benefits |-> Arr(<<>>)])])
    /\ val.result = Ratio(50, 85)

---------------------------------------------------------------------------
(* Observations over one call of parse_content                             *)

Completions    == SelectSeq(cpEvents, LAMBDA ev : ev.e = "complete")
UsedRules      == \E i \in 1..Len(cpEvents) : cpEvents[i].e = "rules"
LlmFailed      == \E i \in 1..Len(cpEvents) : cpEvents[i].out \in {"raises", "notjson"}

IsParsedInfo(r) ==
    /\ r \notin {NotSet, Raised}
    /\ DOMAIN r = DataAttrs \cup MetadataAttrs

\* C15: with an LLM client configured parse_content never raises: whatever
\* the completion call does (raise, return text that is not JSON, return any
\* JSON value) it returns a ParsedCompetitionInfo.
C15_ParseNeverRaises ==
    llm_client =>
        /\ cpPc # "raised"
        /\ cpPc = "done" => IsParsedInfo(cpResult)
        /\ (cpPc \in {"finish", "done"} /\ LlmFailed)
              => (UsedRules /\ parsed_data = parse_with_rules(cpContent))

\* C19: every record returned by parse_content, on the LLM path and on the
\* rule-based path, has a parsing_timestamp, a raw_content_length equal to
\* the length of the content, and a confidence_score in [0, 1].
C19_MetadataAlwaysSet ==
    cpPc = "done" =>
        /\ IsParsedInfo(cpResult)
        /\ cpResult.parsing_timestamp # None
        /\ cpResult.parsing_timestamp.t = "int"
        /\ cpResult.raw_content_length = IntVal(cpContent.len)
        /\ cpResult.confidence_score.t = "ratio"
        /\ 0 <= cpResult.confidence_score.v.num
        /\ cpResult.confidence_score.v.num <= cpResult.confidence_score.v.den
        /\ cpResult.confidence_score.v.den > 0

\* a record of the LLM path for a content of 61 characters
C19_Witness ==
    /\ cpPc = "done"
    /\ ~UsedRules
    /\ Len(Completions) = 1
    /\ cpContent = ContentOpen
    /\ cpResult.name = Str("X")
    /\ cpResult.raw_content_length = IntVal(61)
    /\ cpResult.confidence_score = Ratio(50, 85)

---------------------------------------------------------------------------
(* save_parsed_info followed by _dict_to_parsed_info                       *)

\* C18: a ParsedCompetitionInfo that is serialized to the JSON layout of
\* save_parsed_info and converted back with _dict_to_parsed_info is equal to
\* the original in every field, the metadata fields confidence_score,
\* parsing_timestamp and raw_content_length included.
C18_RoundTrip ==
    rt.step = "loaded" =>
        /\ rt.back # Raised
        /\ \A a \in DataAttrs \cup MetadataAttrs : rt.back[a] = rt.record[a]

---------------------------------------------------------------------------
(* Observations over one run of execute_complete_workflow                  *)

StartOf(stage) ==
    IF \E i \in 1..Len(wfLog) : wfLog[i] = Started(stage)
    THEN CHOOSE i \in 1..Len(wfLog) : wfLog[i] = Started(stage)
    ELSE 0

\* stage returned true before position i of the log
ReturnedTrueBefore(stage, i) ==
    \E j \in 1..(i - 1) : wfLog[j] = Returned(stage, TRUE)

\* C20: every stage is a hard gate: parsing starts only after scraping
\* returned true, generation starts only after parsing returned true, and when
\* a stage returns false no later stage is started and the workflow returns
\* false.
C20_StagesAreGates ==
    /\ StartOf("parsing") > 0 => ReturnedTrueBefore("scraping", StartOf("parsing"))
    /\ StartOf("generation") > 0 => ReturnedTrueBefore("parsing", StartOf("generation"))
    /\ \A i \in 1..Len(wfLog) :
         wfLog[i].ev = "false"
            => /\ i = Len(wfLog)
               /\ wfPc = "returned"
               /\ wfReturn = Bool(FALSE)
    /\ \A i, j \in 1..Len(wfLog) :
         (i # j /\ wfLog[i].ev = "start" /\ wfLog[j].ev = "start")
            => wfLog[i].stage # wfLog[j].stage

\* scraping returned true, parsing returned false, generation never started
C20_Witness ==
    /\ wfPc = "returned"
    /\ wfLog = <<Started("scraping"), Returned("scraping", TRUE),
                 Started("parsing"), Returned("parsing", FALSE)>>
    /\ wfReturn = Bool(FALSE)
    /\ StartOf("generation") = 0

InLog(e) == \E i \in 1..Len(wfLog) : wfLog[i] = e

\* the stage has handed a result to its caller
Ended(stage) == \E i \in 1..Len(wfLog) : wfLog[i].stage = stage /\ wfLog[i].ev # "start"

\* C21: when the completion call of the generation stage raises (all retries
\* consumed, or a terminal 4xx), execute_application_generation returns false,
\* execute_complete_workflow returns false and the exit code is not 0.
C21_LlmFailureSurfaces ==
    (wfLlm = "raised" /\ Ended("generation"))
       => /\ InLog(Returned("generation", FALSE))
          /\ wfReturn = Bool(FALSE)
          /\ exit_code # IntVal(0)

\* C22: no stage leaves by raising an exception to its caller: what a stage
\* hands back is true or false, and a stage in which an exception was raised
\* (here: scrape_url raising inside the with-block) hands back false.
C22_NoStageRaises ==
    /\ \A i \in 1..Len(wfLog) : wfLog[i].ev \in {"start", "true", "false"}
    /\ (scPc = "raised" /\ Ended("scraping")) => InLog(Returned("scraping", FALSE))

\* scrape_url raised inside the with-block and the scraping stage returned false
C22_Witness ==
    /\ scPc = "raised"
    /\ wfLog = <<Started("scraping"), Returned("scraping", FALSE)>>
    /\ wfReturn = Bool(FALSE)

---------------------------------------------------------------------------
(* Stages run after one another, and stages run on their own               *)

BothDocs == {"parsed_competition_info.json", "scraped_content.txt"}

C23_WitnessAlone ==
    /\ wfEntry = "parsing"
    /\ wfContent = OldFile
    /\ InLog(Returned("parsing", TRUE))

ScrapedAsWritten ==
    /\ wfFiles["scraped_content.txt"] = ContentOr(scResult.content)
    /\ wfFiles["scraping_metadata.json"] = MetadataOf(scResult)

\* C24: a stage that fails leaves the files of the earlier stages of the run
\* as they were written: after a parsing failure scraped_content.txt and
\* scraping_metadata.json hold what the scraping stage wrote, and after a
\* generation failure parsed_competition_info.json also holds what the
\* parsing stage wrote.
C24_FailureKeepsArtifacts ==
    /\ (wfEntry = "full" /\ InLog(Returned("parsing", FALSE))) => ScrapedAsWritten
    /\ (wfEntry = "full" /\ InLog(Returned("generation", FALSE)))
          => /\ ScrapedAsWritten
             /\ wfFiles["parsed_competition_info.json"] = ParsedFile(wfContent)

\* the generation stage failed after scraping and parsing had written their files
C24_Witness ==
    /\ wfEntry = "full"
    /\ InLog(Returned("generation", FALSE))
    /\ wfReturn = Bool(FALSE)
    /\ wfFiles["parsed_competition_info.json"] = ParsedFile(wfContent)
    /\ wfFiles["scraping_metadata.json"] = MetadataOf(scResult)
    /\ wfFiles["application.md"] = OldFile

---------------------------------------------------------------------------
(* Exit code of the process                                                *)

\* C25 as stated: the exit code of the process is 0 exactly when
\* execute_complete_workflow returned true, 1 when it returned false or an
\* exception reached main, and 130 after a KeyboardInterrupt.
C25_ZeroIffWorkflowSucceeded ==
    exit_code # NotSet
       => /\ exit_code = IntVal(0) <=> wfReturn = Bool(TRUE)
          /\ (wfReturn = Bool(FALSE) \/ wfPc = "crashed") => exit_code = IntVal(1)
          /\ wfPc = "interrupted" => exit_code = IntVal(130)

\* C25, amended: the value main returns is 0 exactly when
\* execute_complete_workflow returned true, 1 when it returned false or an
\* exception reached main, and 130 after a KeyboardInterrupt; the process also
\* ends with code 0, without main returning, when the user declines the
\* confirmation (sys.exit(0)), and with code 1 when the configuration cannot
\* be loaded (sys.exit(1)).
C25_ExitCodeOfMain ==
    exit_code # NotSet
       => /\ wfPc # "exited"
             => /\ exit_code = IntVal(0) <=> wfReturn = Bool(TRUE)
                /\ (wfReturn = Bool(FALSE) \/ wfPc = "crashed") => exit_code = IntVal(1)
                /\ wfPc = "interrupted" <=> exit_code = IntVal(130)
          /\ wfPc = "exited"
             => /\ wfReturn = NotSet
                /\ IF wfEntry = "full" THEN exit_code = IntVal(0) ELSE exit_code = IntVal(1)

\* the three stages returned true and main returned 0
C25_Witness ==
    /\ wfPc = "returned"
    /\ wfReturn = Bool(TRUE)
    /\ InLog(Returned("generation", TRUE))
    /\ exit_code = IntVal(0)

---------------------------------------------------------------------------
(* The attempts of scrape_static_content                                   *)

StaticEvents == SelectSeq(scEvents, LAMBDA e : e \in {"delay", "get"})
NumGets      == Len(SelectSeq(scEvents, LAMBDA e : e = "get"))
RequestFailed == sOutcome # NotSet /\ sOutcome.kind = "request_error"

\* C26: with max_retries = m >= 1, scrape_static_content issues at most m
\* GETs; a delay precedes every attempt but the first; after a request error
\* on an attempt that is not the last the loop goes on with the next attempt;
\* and when the m-th attempt fails with a request error too, the result has
\* success = false, method 'static' and a message with the error of that last
\* attempt.
C26_StaticRetries ==
    max_retries >= 1
       => /\ NumGets <= max_retries
          /\ \A i \in 1..Len(StaticEvents) :
               StaticEvents[i] = "get" <=> (i = 1 \/ StaticEvents[i - 1] = "delay")
          /\ (RequestFailed /\ NumGets < max_retries)
                => /\ scPc = "static"
                   /\ static_result = NotSet
                   /\ sAttempt = NumGets
          /\ (RequestFailed /\ NumGets = max_retries)
                => /\ static_result \notin {NotSet, None}
                   /\ static_result.success = FALSE
                   /\ static_result.scraping_method = Str("static")
                   /\ static_result.error_message =
                        Msg(<<"Static scraping failed after ", ToString(max_retries),
                              " attempts: ", sOutcome.e>>)

\* two attempts, both met a request error, the second one after a delay
C26_Witness ==
    /\ max_retries = 2
    /\ StaticEvents = <<"get", "delay", "get">>
    /\ RequestFailed
    /\ sOutcome.e = "Connection refused"
    /\ static_result \notin {NotSet, None}
    /\ static_result.success = FALSE

---------------------------------------------------------------------------
(* The scraping stage and the outcome of scrape_url                        *)

IsResult(r) == r \notin {NotSet, None, Raised}

\* the static fetch succeeded with insufficient content and the dynamic fetch failed
Shortfall ==
    /\ IsResult(static_result)
    /\ static_result.success
    /\ ~is_content_sufficient(static_result.content)
    /\ IsResult(dynamic_result)
    /\ ~dynamic_result.success

C28_MethodStaticOrDynamic ==
    (scPc = "done" /\ IsResult(scResult))
       => scResult.scraping_method \in {Str("static"), Str("dynamic")}

\* C30: an outcome of scrape_url with success = true carries no error message.
C30_NoErrorOnSuccess ==
    (scPc = "done" /\ IsResult(scResult) /\ scResult.success)
       => scResult.error_message = None

---------------------------------------------------------------------------
(* Observations over one call of parse_with_rules                          *)

RuleField(section, key) ==
    IF key \in DOMAIN pr.result.v[section].v THEN pr.result.v[section].v[key] ELSE Absent

StageIndex(st) == CHOOSE i \in 1..Len(stage_keywords) : stage_keywords[i] = st

\* positions in benefit_keywords of the benefits reported, in the order reported
ReportedBenefits ==
    LET b == RuleField("benefits_and_prizes", "benefits")
    IN  IF b = Absent THEN <<>>
        ELSE [i \in 1..Len(b.v) |->
                CHOOSE k \in 1..Len(Capitalized) : Str(Capitalized[k]) = b.v[i]]

\* C29: in parse_with_rules application_status is 'closed' whenever a closed
\* phrase occurs, else 'open' if an open phrase occurs, else 'upcoming' if an
\* upcoming phrase occurs, else absent; stage_preference is the first of idea,
\* mvp, seed, growth one of whose keywords occurs, else absent; at most 5
\* benefits are reported, in the order of the vocabulary list.
C29_FirstGroupWins ==
    pr.result # NotSet
       => LET c      == pr.content
              status == RuleField("competition_basic_info", "application_status")
              stage  == RuleField("competition_focus", "stage_preference")
              ben    == ReportedBenefits
          IN  /\ status = IF "closed" \in c.phrases THEN Str("closed")
                          ELSE IF "open" \in c.phrases THEN Str("open")
                          ELSE IF "upcoming" \in c.phrases THEN Str("upcoming")
                          ELSE Absent
              /\ IF c.stages = {} THEN stage = Absent
                 ELSE /\ stage.t = "str"
                      /\ stage.v \in c.stages
                      /\ \A st \in c.stages : StageIndex(stage.v) <= StageIndex(st)
              /\ Len(ben) <= 5
              /\ Len(ben) = Min(5, Cardinality(c.benefits))
              /\ \A i \in 1..Len(ben) : ben[i] \in c.benefits
              /\ \A i, j \in 1..Len(ben) : i < j => ben[i] < ben[j]
              /\ \A k \in c.benefits :
                   (\E i \in 1..Len(ben) : ben[i] = k)
                      \/ (\A i \in 1..Len(ben) : ben[i] < k)

\* closed and open phrases, mvp and growth keywords, seven benefit keywords
C29_Witness ==
    /\ pr.result # NotSet
    /\ pr.content.phrases = {"closed", "open"}
    /\ pr.content.stages = {"mvp", "growth"}
    /\ pr.content.benefits = {1, 2, 3, 5, 6, 8, 10}
    /\ RuleField("competition_basic_info", "application_status") = Str("closed")
    /\ RuleField("competition_focus", "stage_preference") = Str("mvp")
    /\ ReportedBenefits = <<1, 2, 3, 5, 6>>

---------------------------------------------------------------------------
(* Browser sessions at the time close() returns                            *)

\* C31: when close() returns, quit() has been invoked on every browser
\* session the instance ever created, a session replaced after it was found
\* unresponsive included.
C31_EverySessionQuit ==
    scLast = "close"
       => \A i \in 1..Len(sessions) : sessions[i] \in {"quit", "quit_failed"}

---------------------------------------------------------------------------
(* Files of the scraping stage                                             *)

ScrapingFiles == {"scraped_content.txt", "scraping_metadata.json"}

\* the file was written by this run
Written(f) == wfFiles[f] \notin {Absent, OldFile}

\* C32: execute_scraping writes scraped_content.txt and scraping_metadata.json
\* only when scrape_url returned success = true; after a failed fetch it writes
\* neither; every scraping_metadata.json written records success = true; and
\* when a file is written the with-block has been left: close() has returned,
\* the instance holds no browser session, no session runs and the HTTP session
\* is closed.
C32_FilesOnlyOnSuccess ==
    /\ \A f \in ScrapingFiles :
         Written(f)
            => /\ IsResult(scResult)
               /\ scResult.success = TRUE
               /\ scope = "exited"
               /\ scLast = "close"
               /\ driver = 0
               /\ http_closed
               /\ LiveSessions = {}
    /\ (Ended("scraping") /\ (~IsResult(scResult) \/ ~scResult.success))
          => \A f \in ScrapingFiles : ~Written(f)
    /\ Written("scraping_metadata.json")
          => /\ wfFiles["scraping_metadata.json"].v.success = TRUE
             /\ Written("scraped_content.txt")

\* both files written after a fetch that used the browser
C32_Witness ==
    /\ Written("scraped_content.txt")
    /\ wfFiles["scraping_metadata.json"] = MetadataOf(scResult)
    /\ scResult.scraping_method = Str("dynamic")
    /\ sessions = <<"quit">>
    /\ InLog(Returned("scraping", TRUE))


----------------------------------------------------------------------------
(* The rule-based record of a content                                      *)

\* what a parser without an LLM client returns for `content`, with the
\* parsing_timestamp blanked
RuleRecord(content) ==
    [Stamped(dict_to_parsed_info(parse_with_rules(content)),
             validate_parsed_data(parse_with_rules(content)), 0, content)
        EXCEPT !.parsing_timestamp = None]

LlmGaveNothing ==
    \E i \in 1..Len(cpEvents) :
        /\ cpEvents[i].e = "complete"
        /\ \/ cpEvents[i].out \in {"raises", "notjson"}
           \/ cpEvents[i].json = Obj(EmptyDict)

\* C33: when the completion call raises, returns text that is not JSON, or
\* returns the empty JSON object, parse_content returns the record a parser
\* without a client returns for the same content (parsing_timestamp aside);
\* a parser without a client makes no completion call and returns that record.
C33_FallbackEqualsNoClient ==
    /\ ~llm_client => Len(Completions) = 0
    /\ (cpPc \in {"finish", "done", "raised"} /\ (LlmGaveNothing \/ ~llm_client))
          => UsedRules
    /\ (cpPc = "done" /\ (LlmGaveNothing \/ ~llm_client))
          => [cpResult EXCEPT !.parsing_timestamp = None] = RuleRecord(cpContent)
    /\ LlmGaveNothing => cpPc # "raised"

C33_Witness ==
    /\ llm_client
    /\ cpPc = "done"
    /\ Len(Completions) = 1
    /\ Completions[1].json = Obj(EmptyDict)
    /\ Completions[1].out = "json"
    /\ cpContent = ContentOpen
    /\ cpResult.application_status = Str("open")
    /\ cpResult.confidence_score = Ratio(65, 100)

----------------------------------------------------------------------------
(* Confidence of a rule-based parse                                        *)

\* the weight of each field the heuristics can find, when the content has it
HeuristicWeight(c) ==
      (IF c.phrases # {} THEN 15 ELSE 0)
    + (IF c.deadline # None THEN 20 ELSE 0)
    + (IF c.prize # None THEN 15 ELSE 0)
    + (IF c.benefits # {} THEN 10 ELSE 0)
    + (IF c.stages # {} THEN 5 ELSE 0)

\* C34: parse_with_rules returns every weighted section, so the confidence of
\* its result has the full weight total as denominator, the weights of the
\* found fields as numerator, and is never above 0.65; name, organizer and
\* criteria are never set.
C34_RuleConfidence ==
    /\ pr.result # NotSet =>
         /\ \A i \in 1..Len(WeightedSections) : WeightedSections[i] \in DOMAIN pr.result.v
         /\ RuleField("competition_basic_info", "name") = Absent
         /\ RuleField("competition_basic_info", "organizer") = Absent
         /\ RuleField("target_participants", "criteria") = Absent
    /\ pr.confidence # NotSet =>
         /\ pr.confidence.t = "ratio"
         /\ pr.confidence.v.den = 100
         /\ pr.confidence.v.num = HeuristicWeight(pr.content)
         /\ pr.confidence.v.num <= 65

C34_Witness ==
    /\ pr.confidence = Ratio(65, 100)
    /\ pr.content.prize # None
    /\ pr.content.deadline # None
    /\ Cardinality(pr.content.benefits) > 5
    /\ pr.content.phrases = StatusGroups


----------------------------------------------------------------------------
(* The remaining retried outcomes of an attempt                            *)

\* a status outside {200, 429} below 400, an exception that is neither a
\* timeout nor a connection error, and a 200 whose body cannot be decoded down
\* to the content (not JSON, empty choices list, message null)
IsOtherRetried(r) ==
    \/ r.kind = "exception"
    \/ r.kind = "http" /\ r.status \notin {200, 429} /\ r.status < 400
    \/ /\ r.kind = "http"
       /\ r.status = 200
       /\ r.body \in { NotJson, Obj([choices |-> Arr(<<>>)]),
                       Obj([choices |-> Arr(<<Obj([message |-> None])>>)]) }

\* C35: an attempt that ends in one of the remaining outcomes (status below
\* 400 other than 200, an exception while sending or decoding, a 200 whose body
\* is not JSON or has no choices) uses up one attempt, is followed by the
\* backoff sleep and the next POST while attempts remain, and never ends the
\* call before the attempts are used up.
C35_OtherOutcomesRetried ==
    \A i \in 1..Len(apiEvents) :
        (apiEvents[i].e = "post" /\ IsOtherRetried(apiEvents[i].r))
        => LET p == PostsUpTo(i)
           IN  /\ apiPc = "loop" /\ i >= Len(apiEvents) - 1 => attempt = p
               /\ IF p < retry_attempts
                  THEN /\ i < Len(apiEvents)
                       /\ apiEvents[i + 1] =
                             SleepEvent(ExpectedDelay(p - 1, retry_delay, 300))
                       /\ (i + 1 < Len(apiEvents) => apiEvents[i + 2].e = "post")
                       /\ (apiPc = "returned" => i + 1 < Len(apiEvents))
                  ELSE /\ i = Len(apiEvents)
                       /\ apiPc = "returned" => apiContent = None
               /\ (completeOut.state = "raised" /\ i = Len(apiEvents))
                     => p = retry_attempts

C35_Witness ==
    /\ retry_attempts = 3
    /\ retry_delay = 5
    /\ Len(apiEvents) = 5
    /\ apiEvents[1].r = Http(302, NotJson)
    /\ apiEvents[2] = SleepEvent(5)
    /\ apiEvents[3].r = Http(200, Obj([choices |-> Arr(<<>>)]))
    /\ apiEvents[4] = SleepEvent(10)
    /\ apiEvents[5].r = Exc("exception")
    /\ apiPc = "returned"
    /\ apiContent = None


----------------------------------------------------------------------------
(* Termination and resource bounds of call_api                             *)

AtMost(n) == IF n > 0 THEN n ELSE 0

CallBounded ==
    /\ Len(Posts) <= AtMost(retry_attempts)
    /\ Len(Sleeps) <= AtMost(retry_attempts - 1)
    /\ (apiPc # "idle" /\ retry_attempts <= 0) =>
          /\ apiEvents = <<>>
          /\ apiPc = "returned" => apiContent = None
          /\ caller = "complete" => completeOut.state \in {"pending", "raised"}

\* C36: every call of call_api returns, after at most retry_attempts POSTs and
\* at most max(retry_attempts - 1, 0) sleeps whatever the endpoint answers;
\* with retry_attempts <= 0 it makes no POST and no sleep and returns None, and
\* complete then raises.
C36_CallTerminatesBounded ==
    /\ []CallBounded
    /\ (apiPc = "loop") ~> (apiPc = "returned" /\ completeOut.state # "pending")

C36_Witness ==
    /\ caller = "complete"
    /\ retry_attempts = -1
    /\ apiPc = "returned"
    /\ apiEvents = <<>>
    /\ apiContent = None
    /\ completeOut.state = "raised"


----------------------------------------------------------------------------
(* An unexpected exception in a static attempt                             *)

UnexpectedFailed == sOutcome # NotSet /\ sOutcome.kind = "exception"

\* C37: when a static attempt raises an exception that is not a request or
\* HTTP error, scrape_static_content returns a failure at once ("Unexpected
\* error: ...", method 'static'): no delay and no GET follows even when
\* retries remain, and scrape_url goes on to the dynamic fetch.
C37_UnexpectedEndsStatic ==
    UnexpectedFailed
       => /\ scPc \in {"dynamic", "done"}
          /\ IsResult(static_result)
          /\ static_result.success = FALSE
          /\ static_result.scraping_method = Str("static")
          /\ static_result.error_message = Msg(<<"Unexpected error: ", sOutcome.e>>)
          /\ NumGets = sAttempt + 1
          /\ StaticEvents[Len(StaticEvents)] = "get"
          /\ scPc = "done" =>
                /\ IsResult(dynamic_result)
                /\ IsResult(scResult)
                /\ dynamic_result.scraping_method = Str("dynamic")
                /\ dynamic_result.success => scResult = dynamic_result

\* the first of two attempts raised; the browser then fetched the page
C37_Witness ==
    /\ UnexpectedFailed
    /\ max_retries = 2
    /\ StaticEvents = <<"get">>
    /\ scPc = "done"
    /\ IsResult(dynamic_result)
    /\ dynamic_result.success
    /\ scResult = dynamic_result


----------------------------------------------------------------------------
(* Termination and resource bounds of a run of the workflow                *)

NumNavigations == Len(SelectSeq(scEvents, LAMBDA e : e = "navigate"))
Starts(stage)  == Cardinality({i \in 1..Len(wfLog) : wfLog[i] = Started(stage)})
RunOver        == wfPc \in {"returned", "exited", "interrupted"}

RunBounded ==
    /\ NumGets <= max_retries
    /\ NumNavigations <= 1
    /\ wfPosts.parsing <= 3
    /\ wfPosts.generation <= 3
    /\ \A stage \in {"scraping", "parsing", "generation"} : Starts(stage) <= 1

\* C38: every run of execute_complete_workflow ends, whatever the website and
\* the LLM endpoint answer, after at most max_retries static GETs, at most one
\* browser navigation, at most 3 completion POSTs in the parsing stage and at
\* most 3 in the generation stage, and with no stage started twice.
C38_RunTerminatesBounded ==
    /\ []RunBounded
    /\ (wfEntry = "full") ~> RunOver

\* a run that used every resource to its bound and returned
C38_Witness ==
    /\ wfEntry = "full"
    /\ wfPc = "returned"
    /\ max_retries = 2
    /\ NumGets = 2
    /\ NumNavigations = 1
    /\ wfPosts = [parsing |-> 3, generation |-> 3]
    /\ \A stage \in {"scraping", "parsing", "generation"} : Starts(stage) = 1
    /\ wfReturn = Bool(TRUE)

=============================================================================
